---------------------------- MODULE Spec2Model ----------------------------
(***************************************************************************)
(* Text layout engine of the e-paper firmware: the UTF-8 decoder, the      *)
(* glyph lookup, the single-line drawer and the multi-line line breaker    *)
(* (epd_text.c, typo-flag revision), and the older line breaker that the   *)
(* repository still carries (epd_text.c, wrap_width revision).             *)
(***************************************************************************)
EXTENDS Integers, Sequences, FiniteSets, TLC

(***************************************************************************)
(* Bounds of the model                                                     *)
(***************************************************************************)
\* longest byte string handed to the decoder loop
MaxBytes == 3
\* bytes of foreign memory modelled behind the terminating NUL
TailLen == 3
\* longest text, in characters, handed to epd_text_draw_multiline
MaxGlyphs == 4
\* lines after which the run of the wrap_width revision is cut off
MaxLegacyLines == 3
\* longest text, in characters, handed to epd_text_calc_width and to a
\* direct call of epd_text_draw_string
MaxLineChars == 3

(***************************************************************************)
(* State                                                                   *)
(***************************************************************************)
VARIABLES
  buf,        \* the text in memory (CString)
  ptr,        \* the decoder cursor of the calling loop
  char_start, \* the cursor before the last decoder call (0: no call yet)
  code_point, \* the value the last decoder call returned
  read_hi,    \* the highest address the last decoder call read
  caller,     \* which loop drives the decoder
  upc,        \* position of that loop: "loop" or "end"
  \* epd_text_draw_multiline (typo-flag revision); buf is its text argument
  rect,             \* the EpdRect argument
  config,           \* the EPDTextConfig argument
  pc,               \* position in the call
  text_copy,        \* the strcpy of the text that strtok cuts up
  save_ptr,         \* where strtok resumes
  token,            \* start of the current paragraph
  current,          \* cursor of the segmenting loop
  segment_start,
  segment_width,
  segment_height,
  last_code_point,
  prev_char_start,  \* 0 is NULL
  segments,         \* the start addresses stored so far
  seg_i,            \* index of the drawing loop (from 1)
  line_count,
  current_x,
  current_y,
  scan,             \* what the last pass of the segmenting loop decided
  lines,            \* the segments handed to epd_text_draw_string so far
  written,          \* the boxes of pixels written so far
  \* epd_text_draw_multiline (wrap_width revision); it shares buf, config, pc,
  \* line_count, current_y and lines
  line_p,           \* p, the position the next line is cut at
  line_start,       \* the start of the line being measured
  \* direct calls of the library functions
  wrapper,          \* the EPDWrapper argument
  fn,               \* the function called last ("none": no call yet)
  arg,              \* its arguments: code point and position
  ret,              \* the int it returned
  ret_char,         \* the FontCharInfo it returned (NullChar: NULL)
  revision,         \* the revision of epd_text.c in use
  measured,         \* the int epd_text_calc_width returned
  glyphs,           \* the glyphs handed to the bitmap drawer by the last call
  \* the packed framebuffer of a small panel
  framebuffer,      \* its bytes: two 4-bit pixels each
  fb_before,        \* the bytes before the last call
  pixel_log,        \* the pixels handed to epd_wrapper_draw_pixel by the last call
  stray,            \* the byte positions outside the buffer that were written
  \* the heap blocks of a draw call
  may_fail,         \* whether malloc can return NULL during the call
  heap,             \* the blocks malloc returned so far, with the number of their frees
  failed,           \* the allocations that returned NULL so far
  \* the globals of epd_text.c and a caller that keeps a returned pointer
  space_glyphs,     \* the records harf_sp and full_sp
  held,             \* a pointer epd_text_find_char returned, and the fields read through it then
  find_calls,       \* the number of calls of epd_text_find_char so far
  \* the tasks of the application (epd_main.c)
  task_pc,          \* the position of each task
  circle_count,     \* circle_count of touch_handling_task
  \* the UART command channel (uart_command.c)
  sent,             \* what the host sends: packets, broken packets, pauses
  rx,               \* the bytes of it that uart_read_bytes has not returned yet
  parser,           \* the locals of uart_rx_task
  packet_buffer,    \* s_packet_buffer, as far as it was written
  frame,            \* the bytes taken since the start marker was accepted
  events,           \* the frames that reached READ_END, and what was done with each
  \* the file transfer session (file_transfer.c)
  session,          \* s_session
  open_files,       \* the FILE streams fopen returned that were not closed yet
  file_calls,       \* the number of calls of the module so far
  file_ret          \* the last call: what it returned, and the stream it closed

(***************************************************************************)
(* Bytes and memory                                                        *)
(***************************************************************************)
\* non-NUL byte values the decoder is driven with: ASCII, continuation
\* bytes, 2-, 3- and 4-byte leads, and a byte that is no lead at all
Utf8Bytes == {65, 128, 140, 192, 195, 227, 240, 248}

RECURSIVE SeqsUpTo(_, _)
SeqsUpTo(S, n) ==
  IF n = 0 THEN {<<>>}
  ELSE LET shorter == SeqsUpTo(S, n - 1)
       IN  shorter \cup {Append(s, b) : s \in {t \in shorter : Len(t) = n - 1}, b \in S}

\* what lies behind the terminator: bytes that look like continuation bytes
BeyondNul == [i \in 1..TailLen |-> 128]

\* a C string in memory: the bytes, the NUL, then memory that is not the string's
CString(bytes) == bytes \o <<0>> \o BeyondNul

\* index of the terminating NUL of the string that starts at index 1
RECURSIVE NulFrom(_, _)
NulFrom(m, i) == IF i > Len(m) \/ m[i] = 0 THEN i ELSE NulFrom(m, i + 1)
NulIndex(m) == NulFrom(m, 1)

\* a byte read through a pointer
MemAt(m, i) == IF i \in 1..Len(m) THEN m[i] ELSE 0

(***************************************************************************)
(* epd_text_utf8_next_char                                                 *)
(***************************************************************************)
REPLACEMENT == 65533

\* number of bytes the lead byte announces; 0 for a byte that is no lead
Utf8BytesToRead(b) ==
  IF b < 128 THEN 1
  ELSE IF b \div 32 = 6 THEN 2
  ELSE IF b \div 16 = 14 THEN 3
  ELSE IF b \div 8 = 30 THEN 4
  ELSE 0

\* payload bits of the lead byte
Utf8LeadBits(b) ==
  IF b < 128 THEN b
  ELSE IF b \div 32 = 6 THEN b % 32
  ELSE IF b \div 16 = 14 THEN b % 16
  ELSE b % 8

IsContinuation(b) == b \div 64 = 2

\* the same branch without its (*text)++
Utf8InvalidLeadStuck(p) == [cp |-> REPLACEMENT, next |-> p, hi |-> p]

\* the branch for a byte that is no lead: one byte is skipped
Utf8InvalidLead(p) == [cp |-> REPLACEMENT, next |-> p + 1, hi |-> p]

\* the same branch skipping the lead byte only
Utf8InvalidContinuationOneByte(p, i) == [cp |-> REPLACEMENT, next |-> p + 1, hi |-> p + i]

\* the branch for a byte that is no continuation byte, found at offset i
Utf8InvalidContinuation(p, i) == [cp |-> REPLACEMENT, next |-> p + i, hi |-> p + i]

\* the loop without the test of the continuation bytes
RECURSIVE Utf8ContinueUnchecked(_, _, _, _, _)
Utf8ContinueUnchecked(m, p, i, n, cp) ==
  IF i >= n THEN [cp |-> cp, next |-> p + n, hi |-> p + n - 1]
  ELSE Utf8ContinueUnchecked(m, p, i + 1, n, cp * 64 + (MemAt(m, p + i) % 64))

\* the loop over the continuation bytes, entered with i = 1; the code point
\* has at most 3 + 3*6 bits, so the uint32_t never wraps
RECURSIVE Utf8Continue(_, _, _, _, _)
Utf8Continue(m, p, i, n, cp) ==
  IF i >= n THEN [cp |-> cp, next |-> p + n, hi |-> p + n - 1]
  ELSE IF ~IsContinuation(MemAt(m, p + i)) THEN Utf8InvalidContinuation(p, i)
  ELSE Utf8Continue(m, p, i + 1, n, cp * 64 + (MemAt(m, p + i) % 64))

\* one call: cp is the return value, next the cursor afterwards, hi the
\* highest address read
Utf8NextChar(m, p) ==
  LET b == MemAt(m, p)
  IN  IF b = 0 THEN [cp |-> 0, next |-> p, hi |-> p]
      ELSE IF Utf8BytesToRead(b) = 0 THEN Utf8InvalidLead(p)
      ELSE Utf8Continue(m, p, 1, Utf8BytesToRead(b), Utf8LeadBits(b))

(***************************************************************************)
(* Font data (FontInfo, FontCharInfo) and epd_text_find_char               *)
(***************************************************************************)
TYPO_FLAG_NO_BREAK_START == 8
TYPO_FLAG_NO_BREAK_END == 16

\* flags & bit # 0, for a single-bit mask
HasFlag(flags, bit) == (flags \div bit) % 2 = 1

\* the NULL result of a lookup
NullChar ==
  [code_point |-> -1, img_width |-> 0, img_height |-> 0, typo_flags |-> 0,
   rotation |-> 0, x_offset |-> 0, y_offset |-> 0]

\* config->font == NULL: a record no font data equals
NullFont == [size |-> -1, max_width |-> 0, max_height |-> 0, chars |-> <<>>]

\* a font of size 16: Latin 'A' (8 wide), the corner brackets U+300C (no line
\* end) and U+300D (no line start), and HIRAGANA GA U+304C (16 wide)
Font ==
  [size |-> 16, max_width |-> 16, max_height |-> 16,
   chars |-> <<
     [code_point |-> 65, img_width |-> 8, img_height |-> 16, typo_flags |-> 3,
      rotation |-> 1, x_offset |-> 0, y_offset |-> 0],
     [code_point |-> 12300, img_width |-> 16, img_height |-> 16, typo_flags |-> 20,
      rotation |-> 1, x_offset |-> 0, y_offset |-> 0],
     [code_point |-> 12301, img_width |-> 16, img_height |-> 16, typo_flags |-> 12,
      rotation |-> 1, x_offset |-> 0, y_offset |-> 0],
     [code_point |-> 12364, img_width |-> 16, img_height |-> 16, typo_flags |-> 4,
      rotation |-> 0, x_offset |-> 0, y_offset |-> 0] >>]

\* the half-width and full-width space records, as find_char hands them out
harf_sp(font) ==
  [code_point |-> 32, img_width |-> font.size \div 2, img_height |-> font.size,
   typo_flags |-> 0, rotation |-> 0, x_offset |-> 0, y_offset |-> 0]
full_sp(font) ==
  [code_point |-> 12288, img_width |-> font.size, img_height |-> font.size,
   typo_flags |-> 0, rotation |-> 0, x_offset |-> 0, y_offset |-> 0]

\* the binary search over chars[left..right]; 0 when the code point is absent
RECURSIVE BinarySearch(_, _, _, _)
BinarySearch(chars, cp, left, right) ==
  IF left > right THEN 0
  ELSE LET mid == left + (right - left) \div 2
       IN  IF chars[mid].code_point = cp THEN mid
           ELSE IF chars[mid].code_point < cp THEN BinarySearch(chars, cp, mid + 1, right)
           ELSE BinarySearch(chars, cp, left, mid - 1)

epd_text_find_char(font, cp) ==
  IF font = NullFont \/ Len(font.chars) = 0 THEN NullChar
  ELSE IF cp = 32 THEN harf_sp(font)
  ELSE IF cp = 12288 THEN full_sp(font)
  ELSE LET k == BinarySearch(font.chars, cp, 1, Len(font.chars))
       IN  IF k = 0 THEN NullChar ELSE font.chars[k]

epd_text_is_no_start_char(font_char) == HasFlag(font_char.typo_flags, TYPO_FLAG_NO_BREAK_START)
epd_text_is_no_end_char(font_char) == HasFlag(font_char.typo_flags, TYPO_FLAG_NO_BREAK_END)

(***************************************************************************)
(* draw_rotated_char, epd_text_draw_char, epd_text_draw_string             *)
(* A written area is a box [x0, x1, y0, y1] of pixel coordinates, bounds   *)
(* included.  The glyph bitmaps of Font are solid, so a glyph writes every *)
(* pixel of its box.                                                       *)
(***************************************************************************)
EPD_DISPLAY_WIDTH == 960
EPD_DISPLAY_HEIGHT == 540

Box(x0, x1, y0, y1) == [x0 |-> x0, x1 |-> x1, y0 |-> y0, y1 |-> y1]

\* EPDWrapper: addr is the address of the struct and framebuffer the address
\* of the buffer, 0 for NULL
FB_BASE == 1
ReadyWrapper == [addr |-> 1, is_initialized |-> TRUE, framebuffer |-> FB_BASE]

\* the wrapper before epd_wrapper_init and after epd_wrapper_deinit
DeinitWrapper == [addr |-> 1, is_initialized |-> FALSE, framebuffer |-> 0]

\* wrapper == NULL
NullWrapper == [addr |-> 0, is_initialized |-> FALSE, framebuffer |-> 0]

\* rotation 0: the panel in landscape
epd_wrapper_get_width ==
  IF wrapper.addr = 0 \/ ~wrapper.is_initialized THEN 0 ELSE EPD_DISPLAY_WIDTH
epd_wrapper_get_height ==
  IF wrapper.addr = 0 \/ ~wrapper.is_initialized THEN 0 ELSE EPD_DISPLAY_HEIGHT

\* the guard of epd_wrapper_draw_pixel and epd_wrapper_draw_line: what of the
\* boxes handed to them reaches the framebuffer
FramebufferWrites(boxes) ==
  IF wrapper.addr = 0 \/ ~wrapper.is_initialized \/ wrapper.framebuffer = 0 THEN {}
  ELSE boxes

\* the pixels draw_rotated_char hands to epd_wrapper_draw_pixel
draw_rotated_char(x, y, char_info, rotation) ==
  IF char_info.code_point = 32 \/ char_info.code_point = 12288 THEN {}
  ELSE IF char_info.img_width = 0 \/ char_info.img_height = 0 THEN {}
  ELSE IF rotation = 1 \/ rotation = 3
       THEN {Box(x, x + char_info.img_height - 1, y, y + char_info.img_width - 1)}
       ELSE {Box(x, x + char_info.img_width - 1, y, y + char_info.img_height - 1)}

\* C integer division truncates towards zero
CDiv(a, b) == IF a >= 0 THEN a \div b ELSE -((-a) \div b)

\* the underline of a glyph: epd_wrapper_draw_line between the two end points
Underline(x, y, char_info, rotation, cfg) ==
  IF cfg.underline /\ ~cfg.vertical
  THEN IF rotation = 0 \/ rotation = 2
       THEN {Box(x, x + char_info.img_width,
                 y + cfg.font.max_height + 2, y + cfg.font.max_height + 2)}
       ELSE LET ux == IF rotation = 1 THEN x - 2 ELSE x + char_info.img_height + 2
            IN  {Box(ux, ux, y, y + char_info.img_width)}
  ELSE {}

\* the advance draw_char returns
CharAdvance(char_info, rotation, cfg) ==
  IF rotation = 1
  THEN (IF cfg.mono_spacing THEN cfg.font.max_height ELSE char_info.img_height)
  ELSE IF cfg.mono_spacing
  THEN (IF cfg.vertical THEN cfg.font.max_height ELSE cfg.font.max_width)
  ELSE (IF cfg.vertical THEN char_info.img_height ELSE char_info.img_width)

\* the rotation draw_char hands to draw_rotated_char
CharRotation(char_info, cfg) == IF cfg.vertical THEN char_info.rotation ELSE 0

\* advance: the return value; boxes: the pixels written; drawn: the glyph
\* handed to draw_rotated_char, with its rotation
epd_text_draw_char(x, y, cp, cfg) ==
  LET char_info == epd_text_find_char(cfg.font, cp)
      rotation == CharRotation(char_info, cfg)
      sub_offset == cfg.font.max_width - char_info.img_height - char_info.y_offset
      x_pos ==
        IF rotation = 0
        THEN (IF cfg.mono_spacing \/ cfg.vertical
              THEN x + CDiv(cfg.font.max_width - char_info.img_width, 2) ELSE x)
        ELSE IF rotation = 1 \/ rotation = 3
        THEN x + (IF sub_offset > 0 THEN sub_offset ELSE 0)
        ELSE IF rotation = 2 THEN x + cfg.font.max_width - char_info.img_height
        ELSE x
      y_pos ==
        IF rotation = 1 \/ rotation = 3 THEN y + char_info.x_offset
        ELSE IF rotation = 2 THEN y
        ELSE y + char_info.y_offset
  IN  IF wrapper.addr = 0 \/ cfg.font = NullFont
      THEN [advance |-> 0, boxes |-> {}, drawn |-> <<>>]
      ELSE IF char_info = NullChar THEN [advance |-> 0, boxes |-> {}, drawn |-> <<>>]
      ELSE [advance |-> CharAdvance(char_info, rotation, cfg),
            drawn |-> <<[code_point |-> cp, rotation |-> rotation]>>,
            boxes |-> FramebufferWrites(draw_rotated_char(x_pos, y_pos, char_info, rotation)
                                          \cup Underline(x, y, char_info, rotation, cfg))]

\* the loop of epd_text_draw_string from cursor p of the string m on
RECURSIVE DrawStringFrom(_, _, _, _, _, _, _)
DrawStringFrom(m, p, cur_x, cur_y, total_advance, boxes, cfg) ==
  LET r == Utf8NextChar(m, p)
      char_info == epd_text_find_char(cfg.font, r.cp)
      d == epd_text_draw_char(cur_x, cur_y, r.cp, cfg)
      step == d.advance + cfg.char_spacing
      stop == [advance |-> (IF total_advance > 0
                            THEN total_advance - cfg.char_spacing
                            ELSE total_advance),
               boxes |-> boxes]
  IN  IF r.cp = 0 THEN stop
      ELSE IF char_info = NullChar
      THEN DrawStringFrom(m, r.next, cur_x, cur_y, total_advance, boxes, cfg)
      ELSE IF cfg.vertical /\ cur_y + char_info.img_height > epd_wrapper_get_height THEN stop
      ELSE IF ~cfg.vertical /\ cur_x + char_info.img_width > epd_wrapper_get_width THEN stop
      ELSE IF cfg.vertical
      THEN DrawStringFrom(m, r.next, cur_x, cur_y + step, total_advance + step,
                          boxes \cup d.boxes, cfg)
      ELSE DrawStringFrom(m, r.next, cur_x + step, cur_y, total_advance + step,
                          boxes \cup d.boxes, cfg)

epd_text_draw_string(x, y, m, cfg) ==
  IF wrapper.addr = 0 \/ cfg.font = NullFont THEN [advance |-> 0, boxes |-> {}]
  ELSE DrawStringFrom(m, 1, x, y, 0, {}, cfg)

(***************************************************************************)
(* Inputs of epd_text_draw_multiline                                       *)
(***************************************************************************)
\* the characters the texts are made of, as UTF-8: 'A', U+304C, U+300C,
\* U+300D and the line feed
TextChars == {<<65>>, <<227, 129, 140>>, <<227, 128, 140>>, <<227, 128, 141>>, <<10>>}

RECURSIVE Flatten(_)
Flatten(ss) == IF ss = <<>> THEN <<>> ELSE Head(ss) \o Flatten(Tail(ss))

Texts == {Flatten(cs) : cs \in SeqsUpTo(TextChars, MaxGlyphs)}

\* EpdRect values: 20 wide (the width of the "A + U+304C" scenario), narrower
\* than any glyph, and three full-width glyphs wide
Rects ==
  {[x |-> 10, y |-> 10, width |-> 20, height |-> 40],
   [x |-> 10, y |-> 10, width |-> 4, height |-> 40],
   [x |-> 10, y |-> 10, width |-> 48, height |-> 60]}

\* EPDTextConfig values; line_spacing 4 is the value epd_text_config_init sets
Configs ==
  {c \in [font : {Font}, vertical : BOOLEAN, mono_spacing : BOOLEAN, box_padding : {0, 4},
          char_spacing : {0}, line_spacing : {4}, underline : {FALSE}] :
      ~(c.mono_spacing /\ c.box_padding # 0)}

\* strtok(text_copy, "\n") / strtok(NULL, "\n"), resumed at address from:
\* token is the start of the token (0: NULL), mem the buffer afterwards,
\* save the address the next call resumes at
RECURSIVE SkipDelimiters(_, _)
SkipDelimiters(m, i) == IF MemAt(m, i) = 10 THEN SkipDelimiters(m, i + 1) ELSE i

RECURSIVE TokenEnd(_, _)
TokenEnd(m, i) == IF MemAt(m, i) = 0 \/ MemAt(m, i) = 10 THEN i ELSE TokenEnd(m, i + 1)

strtok(m, from) ==
  LET start == SkipDelimiters(m, from)
      end == TokenEnd(m, start)
  IN  IF MemAt(m, start) = 0 THEN [token |-> 0, mem |-> m, save |-> start]
      ELSE IF MemAt(m, end) = 10
      THEN [token |-> start, mem |-> [m EXCEPT ![end] = 0], save |-> end + 1]
      ELSE [token |-> start, mem |-> m, save |-> end]

\* strlen of the string at address p
RECURSIVE strlen(_, _)
strlen(m, p) == IF MemAt(m, p) = 0 THEN 0 ELSE 1 + strlen(m, p + 1)

\* what a read through the uninitialized prev_char_info can return
GarbageChars ==
  {[NullChar EXCEPT !.code_point = 0],
   [NullChar EXCEPT !.code_point = 0, !.typo_flags = 255, !.img_width = 255,
                    !.img_height = 255]}

SEGMENTS_CAPACITY == 100
pending_wrap == FALSE

NoArg == [cp |-> 0, x |-> 0, y |-> 0]

(***************************************************************************)
(* Groups of the state variables, and their values while a part is idle    *)
(***************************************************************************)
utf8vars == <<buf, ptr, char_start, code_point, read_hi, caller, upc>>
mlvars == <<rect, config, pc, text_copy, save_ptr, token, current, segment_start,
            segment_width, segment_height, last_code_point, prev_char_start,
            segments, seg_i, line_count, current_x, current_y, scan, lines, written>>
legacyvars == <<line_p, line_start>>
pixelvars == <<framebuffer, fb_before, pixel_log, stray>>
callvars == <<wrapper, fn, arg, ret, ret_char, revision, measured, glyphs, pixelvars>>
heapvars == <<may_fail, heap, failed>>
globalvars == <<space_glyphs, held, find_calls>>
taskvars == <<task_pc, circle_count>>
uartvars == <<sent, rx, parser, packet_buffer, frame, events>>
filevars == <<session, open_files, file_calls, file_ret>>
servicevars == <<uartvars, filevars>>
systemvars == <<taskvars, servicevars>>
apivars == <<callvars, heapvars, globalvars, systemvars>>
textvars == <<utf8vars, mlvars, legacyvars, callvars, heapvars, globalvars>>
vars == <<utf8vars, mlvars, legacyvars, apivars>>

\* the multi-line drawer is not running
NoScan ==
  [at |-> 0, acc |-> 0, ext |-> 0, spacing |-> 0, limit |-> FALSE, old_start |-> 0,
   prev |-> 0, new_start |-> 0, no_start |-> FALSE, no_end |-> FALSE,
   prev_read |-> FALSE, prev_set |-> FALSE]

Utf8Idle ==
  /\ ptr = 0 /\ char_start = 0 /\ code_point = 0 /\ read_hi = 0
  /\ caller = "none" /\ upc = "idle"

LegacyIdle == line_p = 0 /\ line_start = 0

\* no small panel is attached
PixelIdle == framebuffer = <<>> /\ fb_before = <<>> /\ pixel_log = <<>> /\ stray = {}

\* a pointer to a FontCharInfo: NULL, one of the two globals, or chars[index]
\* of a font
NullPtr == [region |-> "null", font |-> NullFont, index |-> 0]

\* FontCharInfo harf_sp = {0x0020, 0U, 7, 16, 0U, 0, 0, 0}; and full_sp
InitialSpaceGlyphs ==
  [harf_sp |-> [code_point |-> 32, img_width |-> 7, img_height |-> 16, typo_flags |-> 0,
                rotation |-> 0, x_offset |-> 0, y_offset |-> 0],
   full_sp |-> [code_point |-> 12288, img_width |-> 7, img_height |-> 16, typo_flags |-> 0,
                rotation |-> 0, x_offset |-> 0, y_offset |-> 0]]

\* the globals as the program starts, and no pointer kept
GlobalsIdle ==
  /\ space_glyphs = InitialSpaceGlyphs
  /\ held = [ptr |-> NullPtr, fields |-> NullChar]
  /\ find_calls = 0

\* the tasks of the application
Tasks == {"main", "touch", "uart"}

\* no task of the application runs
TasksIdle == task_pc = [t \in Tasks |-> "absent"] /\ circle_count = 0

\* packet_state_t state = WAIT_START; command = 0; data_length = 0; ...
ParserStart ==
  [state |-> "WAIT_START", command |-> 0, data_length |-> 0, data_pos |-> 0, packet_crc |-> 0]

\* nothing is sent to the UART
UartIdle ==
  /\ sent = <<>> /\ rx = <<>> /\ parser = ParserStart
  /\ packet_buffer = <<>> /\ frame = <<>> /\ events = <<>>

\* static file_session_t s_session = {0}; file 0 is NULL
NoSession == [file |-> 0, filename |-> "", mode |-> 0, is_open |-> FALSE]

\* the file transfer module is not called
FileIdle ==
  /\ session = NoSession /\ open_files = {} /\ file_calls = 0
  /\ file_ret = [fn |-> "none", value |-> TRUE, closed |-> 0]

ServicesIdle == UartIdle /\ FileIdle

SystemIdle == TasksIdle /\ ServicesIdle

\* malloc never fails, and nothing was allocated
HeapIdle == may_fail = FALSE /\ heap = <<>> /\ failed = <<>>

\* an initialized wrapper with its framebuffer, and no direct call
ApiIdle ==
  /\ wrapper = ReadyWrapper
  /\ fn = "none"
  /\ arg = NoArg
  /\ ret = 0
  /\ ret_char = NullChar
  /\ measured = 0
  /\ glyphs = <<>>
  /\ PixelIdle

MultilineIdle ==
  /\ rect = [x |-> 0, y |-> 0, width |-> 0, height |-> 0]
  /\ config = [font |-> Font, vertical |-> FALSE, mono_spacing |-> FALSE, box_padding |-> 0,
               char_spacing |-> 0, line_spacing |-> 4, underline |-> FALSE]
  /\ pc = "idle"
  /\ text_copy = <<>>
  /\ save_ptr = 0 /\ token = 0 /\ current = 0
  /\ segment_start = 0 /\ segment_width = 0 /\ segment_height = 0
  /\ last_code_point = 0 /\ prev_char_start = 0
  /\ segments = <<>> /\ seg_i = 0 /\ line_count = 0
  /\ current_x = 0 /\ current_y = 0
  /\ scan = NoScan /\ lines = <<>> /\ written = {}

(***************************************************************************)
(* The two decoding loops of the library                                   *)
(***************************************************************************)
Utf8Init ==
  /\ buf \in {CString(s) : s \in SeqsUpTo(Utf8Bytes, MaxBytes)}
  /\ ptr = 1
  /\ char_start = 0
  /\ code_point = 0
  /\ read_hi = 0
  /\ caller \in {"draw_string", "scan"}
  /\ upc = "loop"
  /\ MultilineIdle
  /\ LegacyIdle
  /\ ApiIdle
  /\ revision = "typo_flag"
  /\ HeapIdle
  /\ GlobalsIdle
  /\ SystemIdle

\* while ((code_point = epd_text_utf8_next_char(&ptr)) != 0) { ... }
DrawStringDecode ==
  /\ upc = "loop" /\ caller = "draw_string"
  /\ LET r == Utf8NextChar(buf, ptr)
     IN  /\ char_start' = ptr
         /\ ptr' = r.next
         /\ code_point' = r.cp
         /\ read_hi' = r.hi
         /\ upc' = IF r.cp = 0 THEN "end" ELSE "loop"
  /\ UNCHANGED <<buf, caller, mlvars, legacyvars, apivars>>

\* while (*current != '\0') { code_point = epd_text_utf8_next_char(&current); ... }
ScanLoopDecode ==
  /\ upc = "loop" /\ caller = "scan"
  /\ MemAt(buf, ptr) # 0
  /\ LET r == Utf8NextChar(buf, ptr)
     IN  /\ char_start' = ptr
         /\ ptr' = r.next
         /\ code_point' = r.cp
         /\ read_hi' = r.hi
  /\ UNCHANGED <<buf, caller, upc, mlvars, legacyvars, apivars>>

ScanLoopEnd ==
  /\ upc = "loop" /\ caller = "scan"
  /\ MemAt(buf, ptr) = 0
  /\ upc' = "end"
  /\ UNCHANGED <<buf, ptr, char_start, code_point, read_hi, caller, mlvars, legacyvars, apivars>>

Utf8Next == DrawStringDecode \/ ScanLoopDecode \/ ScanLoopEnd

SpecUtf8 == Utf8Init /\ [][Utf8Next]_vars

(***************************************************************************)
(* epd_text_draw_multiline (typo-flag revision)                            *)
(***************************************************************************)
\* local_config.wrap_width
wrap_width ==
  IF config.vertical THEN rect.height - (config.box_padding * 2)
  ELSE rect.width - (config.box_padding * 2)

\* the extent new_width / new_height is compared with
WrapLimit == wrap_width - (config.box_padding * 2)

line_size ==
  IF config.vertical THEN config.font.max_width + config.line_spacing
  ELSE config.font.max_height + config.line_spacing

max_lines ==
  IF config.vertical THEN CDiv(rect.width, line_size) ELSE CDiv(rect.height, line_size)

MultilineInit ==
  /\ buf \in {CString(t) : t \in Texts}
  /\ rect \in Rects
  /\ config \in Configs
  /\ pc = "call"
  /\ Utf8Idle
  /\ LegacyIdle
  /\ ApiIdle
  /\ revision = "typo_flag"
  /\ HeapIdle
  /\ GlobalsIdle
  /\ SystemIdle
  /\ text_copy = <<>>
  /\ save_ptr = 0 /\ token = 0 /\ current = 0
  /\ segment_start = 0 /\ segment_width = 0 /\ segment_height = 0
  /\ last_code_point = 0 /\ prev_char_start = 0
  /\ segments = <<>> /\ seg_i = 0 /\ line_count = 0
  /\ current_x = 0 /\ current_y = 0
  /\ scan = NoScan /\ lines = <<>> /\ written = {}

\* a block malloc returned: its use, the number of free calls on it, and the
\* line of the source of the last one
Malloc(kind) == [kind |-> kind, frees |-> 0, site |-> 0]

\* a free that is left out
FreeLeftOut(h, i, site) == h

\* free of block i of heap h by the statement at the line site
Free(h, i, site) == [h EXCEPT ![i].frees = @ + 1, ![i].site = site]

\* malloc returns a block (TRUE) or NULL (FALSE)
AllocOutcomes == IF may_fail THEN BOOLEAN ELSE {TRUE}

\* the head of the paragraph loop: while (token != NULL && line_count < max_lines)
\* followed by the initialisation of the locals of its body, or by
\* free(text_copy) and the return; h is the heap before
EnterParagraph(t, h) ==
  /\ text_copy' = t.mem
  /\ save_ptr' = t.save
  /\ token' = t.token
  /\ IF t.token # 0 /\ line_count < max_lines
     THEN /\ pc' = "scan"
          /\ current' = t.token
          /\ segment_start' = t.token
          /\ heap' = h
     ELSE /\ pc' = "done"
          /\ heap' = Free(h, 1, 914)
          /\ UNCHANGED <<current, segment_start>>
  /\ segment_width' = 0
  /\ segment_height' = 0
  /\ last_code_point' = 0
  /\ prev_char_start' = 0
  /\ segments' = <<>>
  /\ seg_i' = 0

\* entry: the set-up before the paragraph loop, with the first strtok
Call ==
  /\ pc = "call" /\ revision = "typo_flag"
  /\ IF wrapper.addr = 0 \/ config.font = NullFont
     THEN /\ pc' = "done"
          /\ UNCHANGED <<text_copy, save_ptr, token, current, segment_start, segment_width,
                         segment_height, last_code_point, prev_char_start, segments, seg_i,
                         current_x, current_y, heap, failed>>
     ELSE IF line_size = 0
     THEN /\ pc' = "crashed"
          /\ UNCHANGED <<text_copy, save_ptr, token, current, segment_start, segment_width,
                         segment_height, last_code_point, prev_char_start, segments, seg_i,
                         current_x, current_y, heap, failed>>
     ELSE \E allocated \in AllocOutcomes :
            IF allocated
            THEN /\ current_x' =
                      IF config.vertical
                      THEN rect.x + rect.width - config.box_padding - config.font.max_width
                      ELSE rect.x + config.box_padding
                 /\ current_y' = rect.y + config.box_padding
                 /\ EnterParagraph(strtok(CString(SubSeq(buf, 1, NulIndex(buf) - 1)), 1),
                                   Append(heap, Malloc("text_copy")))
                 /\ failed' = failed
            ELSE \* text_copy == NULL: return 0
                 /\ pc' = "done"
                 /\ failed' = Append(failed, "text_copy")
                 /\ UNCHANGED <<text_copy, save_ptr, token, current, segment_start,
                                segment_width, segment_height, last_code_point,
                                prev_char_start, segments, seg_i, current_x, current_y, heap>>
  /\ UNCHANGED <<utf8vars, legacyvars, callvars, globalvars, systemvars, may_fail, rect, config, line_count, scan, lines,
                 written>>

\* segments[segment_count++] = ... when stores is true: the pointer is stored
\* (TRUE); past the end of the array the store lands in the memory behind it
\* (TRUE) or the call stops (FALSE)
StoreOutcomes(stores) ==
  IF stores /\ Len(segments) >= SEGMENTS_CAPACITY THEN BOOLEAN ELSE {TRUE}

\* one pass of the loop while (*current != '\0') over the paragraph
ScanChar ==
  /\ pc = "scan"
  /\ MemAt(text_copy, current) # 0
  /\ LET r == Utf8NextChar(text_copy, current)
         char_info == epd_text_find_char(config.font, r.cp)
         char_width == IF config.mono_spacing THEN config.font.max_width ELSE char_info.img_width
         char_height == IF config.mono_spacing THEN config.font.max_height ELSE char_info.img_height
         new_width == segment_width + char_width
                        + (IF segment_width > 0 THEN config.char_spacing ELSE 0)
         new_height == segment_height + char_height
                        + (IF segment_height > 0 THEN config.char_spacing ELSE 0)
         size_limit == IF config.vertical THEN new_height > WrapLimit ELSE new_width > WrapLimit
         wraps == size_limit \/ pending_wrap
         uninit == last_code_point = 0
         derefs == ~config.mono_spacing \/ (wraps /\ ~epd_text_is_no_start_char(char_info))
     IN  IF char_info = NullChar
         THEN /\ current' = r.next
              /\ UNCHANGED <<pc, segment_start, segment_width, segment_height, last_code_point,
                             prev_char_start, segments, scan>>
         ELSE \/ \* prev_char_info is read before it was ever assigned
                 /\ uninit /\ derefs
                 /\ pc' = "crashed"
                 /\ scan' = [scan EXCEPT !.prev_read = TRUE, !.prev_set = FALSE]
                 /\ UNCHANGED <<current, segment_start, segment_width, segment_height,
                                last_code_point, prev_char_start, segments>>
              \/ \E prev_char_info \in
                      (IF uninit THEN GarbageChars
                       ELSE {epd_text_find_char(config.font, last_code_point)}) :
                   LET prev_char_width == IF config.mono_spacing THEN config.font.max_width
                                          ELSE prev_char_info.img_width
                       prev_char_height == IF config.mono_spacing THEN config.font.max_height
                                           ELSE prev_char_info.img_height
                       retreat ==
                         /\ wraps
                         /\ \/ epd_text_is_no_start_char(char_info)
                            \/ epd_text_is_no_end_char(prev_char_info)
                         /\ prev_char_start # 0 /\ segment_start < prev_char_start
                       known == epd_text_find_char(config.font, last_code_point) # NullChar
                   IN  /\ current' = r.next
                       /\ \E stored \in StoreOutcomes(wraps) :
                          IF ~stored
                          THEN /\ pc' = "crashed"
                               /\ UNCHANGED <<segment_start, segment_width, segment_height,
                                              segments>>
                          ELSE /\ pc' = pc
                               /\ segments' = IF wraps THEN Append(segments, segment_start)
                                              ELSE segments
                               /\ segment_start' = IF retreat THEN prev_char_start
                                                   ELSE IF wraps THEN current
                                                   ELSE segment_start
                               /\ segment_width' =
                                    IF retreat
                                    THEN (IF known THEN prev_char_width ELSE 0)
                                           + config.char_spacing + char_width
                                    ELSE IF wraps THEN char_width ELSE new_width
                               /\ segment_height' =
                                    IF retreat
                                    THEN (IF known THEN prev_char_height ELSE 0)
                                           + config.char_spacing + char_height
                                    ELSE IF wraps THEN char_height ELSE new_height
                       /\ prev_char_start' = current
                       /\ last_code_point' = r.cp
                       /\ scan' = [at |-> current,
                                   acc |-> IF config.vertical THEN segment_height
                                           ELSE segment_width,
                                   ext |-> IF config.vertical THEN char_height ELSE char_width,
                                   spacing |-> config.char_spacing,
                                   limit |-> wraps,
                                   old_start |-> segment_start,
                                   prev |-> prev_char_start,
                                   new_start |-> segment_start',
                                   no_start |-> epd_text_is_no_start_char(char_info),
                                   no_end |-> ~uninit /\ epd_text_is_no_end_char(prev_char_info),
                                   prev_read |-> derefs,
                                   prev_set |-> ~uninit]
  /\ UNCHANGED <<utf8vars, legacyvars, apivars, rect, config, text_copy, save_ptr, token, seg_i, line_count,
                 current_x, current_y, lines, written>>

\* the end of the paragraph: the last segment is stored
ScanEnd ==
  /\ pc = "scan"
  /\ MemAt(text_copy, current) = 0
  /\ \E stored \in StoreOutcomes(MemAt(text_copy, segment_start) # 0) :
     IF ~stored
     THEN pc' = "crashed" /\ UNCHANGED <<segments, seg_i>>
     ELSE /\ pc' = "emit"
          /\ segments' = IF MemAt(text_copy, segment_start) # 0
                         THEN Append(segments, segment_start) ELSE segments
          /\ seg_i' = 1
  /\ UNCHANGED <<utf8vars, legacyvars, apivars, rect, config, text_copy, save_ptr, token, current, segment_start,
                 segment_width, segment_height, last_code_point, prev_char_start,
                 line_count, current_x, current_y, scan, lines, written>>

\* length of segment i of the paragraph
SegmentLen(i) ==
  IF i < Len(segments) THEN segments[i + 1] - segments[i]
  ELSE strlen(text_copy, segments[i])

\* the string segment i is copied to
SegmentStr(i) ==
  SubSeq(text_copy, segments[i], segments[i] + SegmentLen(i) - 1) \o <<0>>

\* one pass of the drawing loop: a segment is copied and drawn as one line
EmitSegment ==
  /\ pc = "emit"
  /\ seg_i <= Len(segments) /\ line_count < max_lines
  /\ LET outside ==
           IF config.vertical
           THEN current_x - line_size > rect.x + rect.width + config.box_padding
           ELSE current_y + line_size > rect.y + rect.height - config.box_padding
         d == epd_text_draw_string(current_x, current_y, SegmentStr(seg_i), config)
         segment_str == Len(heap) + 1
     IN  \E allocated \in AllocOutcomes :
           IF ~allocated
           THEN \* segment_str == NULL: continue
                /\ failed' = Append(failed, "segment_str")
                /\ seg_i' = seg_i + 1
                /\ UNCHANGED <<pc, line_count, current_x, current_y, lines, written, heap>>
           ELSE IF outside
           THEN /\ heap' = Free(Append(heap, Malloc("segment_str")), segment_str,
                                IF config.vertical THEN 881 ELSE 889)
                /\ pc' = "next"
                /\ UNCHANGED <<seg_i, line_count, current_x, current_y, lines, written, failed>>
           ELSE /\ written' = written \cup d.boxes
                /\ lines' = Append(lines, [start |-> segments[seg_i],
                                           len |-> SegmentLen(seg_i),
                                           x |-> current_x, y |-> current_y])
                /\ current_x' = IF config.vertical THEN current_x - line_size ELSE current_x
                /\ current_y' = IF config.vertical THEN current_y ELSE current_y + line_size
                /\ heap' = Free(Append(heap, Malloc("segment_str")), segment_str, 906)
                /\ line_count' = line_count + 1
                /\ seg_i' = seg_i + 1
                /\ pc' = pc
                /\ failed' = failed
  /\ UNCHANGED <<utf8vars, legacyvars, callvars, globalvars, systemvars, may_fail, rect, config, text_copy, save_ptr, token, current, segment_start,
                 segment_width, segment_height, last_code_point, prev_char_start,
                 segments, scan>>

\* the drawing loop ends
EmitEnd ==
  /\ pc = "emit"
  /\ ~(seg_i <= Len(segments) /\ line_count < max_lines)
  /\ pc' = "next"
  /\ UNCHANGED <<utf8vars, legacyvars, apivars, rect, config, text_copy, save_ptr, token, current, segment_start,
                 segment_width, segment_height, last_code_point, prev_char_start,
                 segments, seg_i, line_count, current_x, current_y, scan, lines, written>>

\* token = strtok(NULL, "\n"), then the next paragraph or the return
NextToken ==
  /\ pc = "next"
  /\ EnterParagraph(strtok(text_copy, save_ptr), heap)
  /\ UNCHANGED <<utf8vars, legacyvars, callvars, globalvars, systemvars, may_fail, failed, rect, config, line_count, current_x, current_y, scan, lines,
                 written>>

Next == Call \/ ScanChar \/ ScanEnd \/ EmitSegment \/ EmitEnd \/ NextToken

Spec == MultilineInit /\ [][Next]_vars

(***************************************************************************)
(* epd_text_draw_multiline (wrap_width revision), with the decoder and the *)
(* lookup of that revision                                                 *)
(***************************************************************************)
\* the font of that revision: a glyph has one width
LegacyFont ==
  [size |-> 16, max_height |-> 16,
   chars |-> << [code_point |-> 65, width |-> 8],
                [code_point |-> 12289, width |-> 16],
                [code_point |-> 12364, width |-> 16] >>]

LegacyTextChars == {<<65>>, <<32>>, <<227, 129, 140>>, <<10>>}

LegacyTexts == {Flatten(cs) : cs \in SeqsUpTo(LegacyTextChars, MaxGlyphs)}

LegacyConfigs ==
  [font : {LegacyFont}, wrap_width : {0, 4, 20}, char_spacing : {0}, line_spacing : {4}]

\* the decoder: a missing byte makes the lead byte a character of its own
LegacyNextChar(m, q) ==
  LET b == MemAt(m, q)
      b1 == MemAt(m, q + 1)
      b2 == MemAt(m, q + 2)
      b3 == MemAt(m, q + 3)
      single == [cp |-> b, next |-> q + 1]
  IN  IF b = 0 THEN [cp |-> 0, next |-> q]
      ELSE IF b < 128 THEN single
      ELSE IF b < 224
      THEN (IF b1 # 0 THEN [cp |-> (b % 32) * 64 + (b1 % 64), next |-> q + 2] ELSE single)
      ELSE IF b < 240
      THEN (IF b1 # 0 /\ b2 # 0
            THEN [cp |-> (b % 16) * 4096 + (b1 % 64) * 64 + (b2 % 64), next |-> q + 3]
            ELSE single)
      ELSE IF b < 248
      THEN (IF b1 # 0 /\ b2 # 0 /\ b3 # 0
            THEN [cp |-> (b % 8) * 262144 + (b1 % 64) * 4096 + (b2 % 64) * 64 + (b3 % 64),
                  next |-> q + 4]
            ELSE single)
      ELSE single

\* the lookup: the width of the glyph, or -1 for NULL
RECURSIVE LegacySearch(_, _, _, _)
LegacySearch(chars, cp, low, high) ==
  IF low > high THEN -1
  ELSE LET mid == (low + high) \div 2
       IN  IF chars[mid].code_point < cp THEN LegacySearch(chars, cp, mid + 1, high)
           ELSE IF chars[mid].code_point > cp THEN LegacySearch(chars, cp, low, mid - 1)
           ELSE chars[mid].width

LegacyFindWidth(font, cp) ==
  IF Len(font.chars) = 0 THEN -1 ELSE LegacySearch(font.chars, cp, 1, Len(font.chars))

\* the measuring loop while (tmp <= p): the value of p it leaves
RECURSIVE LegacyCut(_, _, _, _, _, _)
LegacyCut(m, tmp, pp, current_width, last_break, cfg) ==
  IF tmp > pp THEN pp
  ELSE LET r == LegacyNextChar(m, tmp)
           break_here == IF r.cp = 32 \/ r.cp = 12289 \/ r.cp = 12290 THEN tmp ELSE last_break
           w == LegacyFindWidth(cfg.font, r.cp)
           width == current_width
                      + (IF w # -1 THEN w ELSE cfg.font.size \div 2) + cfg.char_spacing
       IN  IF r.cp = 0 THEN pp
           ELSE IF r.cp = 10 THEN tmp
           ELSE IF width > cfg.wrap_width THEN (IF break_here # 0 THEN break_here ELSE pp)
           ELSE LegacyCut(m, r.next, pp, width, break_here, cfg)

\* the line buffer after the newline was cut off
RECURSIVE UpToNewline(_)
UpToNewline(str) ==
  IF str = <<>> \/ Head(str) = 10 THEN <<>> ELSE <<Head(str)>> \o UpToNewline(Tail(str))

LegacyInit ==
  /\ buf \in {CString(t) : t \in LegacyTexts}
  /\ config \in LegacyConfigs
  /\ pc = "call"
  /\ Utf8Idle
  /\ rect = [x |-> 10, y |-> 10, width |-> 0, height |-> 0]
  /\ text_copy = <<>>
  /\ save_ptr = 0 /\ token = 0 /\ current = 0
  /\ segment_start = 0 /\ segment_width = 0 /\ segment_height = 0
  /\ last_code_point = 0 /\ prev_char_start = 0
  /\ segments = <<>> /\ seg_i = 0 /\ line_count = 0
  /\ current_x = 10 /\ current_y = 10
  /\ scan = NoScan /\ lines = <<>> /\ written = {}
  /\ LegacyIdle
  /\ ApiIdle
  /\ revision = "wrap_width"
  /\ may_fail = TRUE /\ heap = <<>> /\ failed = <<>>
  /\ GlobalsIdle
  /\ SystemIdle

legacyfixed == <<utf8vars, callvars, globalvars, systemvars, may_fail, rect, config, text_copy, save_ptr, token, current, segment_start,
                 segment_width, segment_height, last_code_point, prev_char_start,
                 segments, seg_i, current_x, scan, written>>

\* entry: without a wrap width the text is one line
LegacyCall ==
  /\ pc = "call" /\ revision = "wrap_width"
  /\ IF config.wrap_width <= 0
     THEN /\ pc' = "done"
          /\ line_count' = 1
          /\ lines' = <<[start |-> 1, len |-> strlen(buf, 1), x |-> current_x, y |-> current_y]>>
          /\ UNCHANGED <<line_p, line_start>>
     ELSE /\ pc' = "line_loop"
          /\ line_p' = 1
          /\ line_start' = 1
          /\ UNCHANGED <<line_count, lines>>
  /\ UNCHANGED <<legacyfixed, current_y, heap, failed>>

\* one pass of the loop while (*p): a line is measured, copied and drawn
LegacyLine ==
  /\ pc = "line_loop"
  /\ MemAt(buf, line_p) # 0
  /\ line_count < MaxLegacyLines
  /\ LET cut == LegacyCut(buf, line_start, line_p, 0, 0, config)
         line_buf == UpToNewline(SubSeq(buf, line_start, cut - 1))
         after == IF MemAt(buf, cut) = 10 THEN cut + 1 ELSE cut
     IN  \E line_buf_allocated \in AllocOutcomes :
           IF line_buf_allocated
           THEN /\ heap' = Free(Append(heap, Malloc("line_buf")), Len(heap) + 1, 1089)
                /\ failed' = failed
                /\ lines' = Append(lines, [start |-> line_start, len |-> Len(line_buf),
                                           x |-> current_x, y |-> current_y])
                /\ line_count' = line_count + 1
                /\ current_y' = current_y + config.font.max_height + config.line_spacing
                /\ line_p' = after
                /\ line_start' = after
                /\ pc' = pc
           ELSE \* line_buf == NULL: break
                /\ pc' = "done"
                /\ line_p' = cut
                /\ failed' = Append(failed, "line_buf")
                /\ UNCHANGED <<lines, line_count, current_y, line_start, heap>>
  /\ UNCHANGED legacyfixed

\* the loop ends at the terminating NUL
LegacyReturn ==
  /\ pc = "line_loop"
  /\ MemAt(buf, line_p) = 0
  /\ pc' = "done"
  /\ UNCHANGED <<legacyfixed, legacyvars, line_count, current_y, lines, heap, failed>>

LegacyNext == LegacyCall \/ LegacyLine \/ LegacyReturn

SpecLegacy == LegacyInit /\ [][LegacyNext]_vars

(***************************************************************************)
(* Direct calls of epd_text_find_char, epd_text_draw_char and              *)
(* epd_text_draw_string (typo-flag revision)                               *)
(***************************************************************************)
\* the code points a font table is made of: the two spaces, 'A', U+300C and
\* U+304C
TableCodePoints == {32, 65, 12288, 12300, 12364}

\* the FontCharInfo a table holds for a code point: the table's own spaces
\* are narrower than the ones find_char makes up
GlyphOf(cp) ==
  [code_point |-> cp,
   img_width |-> (IF cp = 32 THEN 5 ELSE IF cp = 65 THEN 8 ELSE IF cp = 12288 THEN 14 ELSE 16),
   img_height |-> 16, typo_flags |-> 0, rotation |-> 0, x_offset |-> 0, y_offset |-> 0]

\* chars[]: the records in ascending order of code_point
RECURSIVE SortedTable(_)
SortedTable(S) ==
  IF S = {} THEN <<>>
  ELSE LET lo == CHOOSE c \in S : \A d \in S : c <= d
       IN  <<GlyphOf(lo)>> \o SortedTable(S \ {lo})

FontSizes == {16, 25}

\* FontInfo values, the font without glyphs (chars_count == 0) included
GlyphFonts ==
  {[size |-> sz, max_width |-> 16, max_height |-> 16, chars |-> SortedTable(S)] :
      sz \in FontSizes, S \in SUBSET TableCodePoints}

\* the code points looked up: below, between, above and in the table
LookupCodePoints == {31, 32, 65, 66, 12288, 12289, 12300, 12364, 12365}

Wrappers == {ReadyWrapper, DeinitWrapper, NullWrapper}

GlyphInit ==
  /\ buf \in {CString(<<65>>), CString(<<65, 227, 129, 140>>)}
  /\ config \in [font : GlyphFonts \cup {NullFont}, vertical : BOOLEAN, mono_spacing : {FALSE},
                 box_padding : {0}, char_spacing : {0}, line_spacing : {4},
                 underline : {FALSE}]
  /\ wrapper \in Wrappers
  /\ arg \in [cp : LookupCodePoints, x : {10}, y : {10}]
  /\ fn = "none"
  /\ ret = 0
  /\ ret_char = NullChar
  /\ revision = "typo_flag"
  /\ HeapIdle
  /\ GlobalsIdle
  /\ SystemIdle
  /\ measured = 0
  /\ glyphs = <<>>
  /\ PixelIdle
  /\ Utf8Idle
  /\ LegacyIdle
  /\ rect = [x |-> 0, y |-> 0, width |-> 0, height |-> 0]
  /\ pc = "idle"
  /\ text_copy = <<>>
  /\ save_ptr = 0 /\ token = 0 /\ current = 0
  /\ segment_start = 0 /\ segment_width = 0 /\ segment_height = 0
  /\ last_code_point = 0 /\ prev_char_start = 0
  /\ segments = <<>> /\ seg_i = 0 /\ line_count = 0
  /\ current_x = 0 /\ current_y = 0
  /\ scan = NoScan /\ lines = <<>> /\ written = {}

glyphfixed == <<utf8vars, legacyvars, rect, config, pc, text_copy, save_ptr, token, current,
                segment_start, segment_width, segment_height, last_code_point,
                prev_char_start, segments, seg_i, line_count, current_x, current_y, scan,
                lines, wrapper, arg, revision, measured, pixelvars, heapvars, globalvars,
                systemvars>>

\* epd_text_find_char(config->font, code_point)
FindChar ==
  /\ pc = "idle" /\ fn = "none"
  /\ config.font # NullFont
  /\ fn' = "find_char"
  /\ ret_char' = epd_text_find_char(config.font, arg.cp)
  /\ UNCHANGED <<glyphfixed, ret, written, glyphs>>

\* epd_text_draw_char(wrapper, x, y, code_point, config)
DrawChar ==
  /\ pc = "idle" /\ fn = "none"
  /\ LET d == epd_text_draw_char(arg.x, arg.y, arg.cp, config)
     IN  /\ ret' = d.advance
         /\ written' = d.boxes
         /\ glyphs' = d.drawn
  /\ fn' = "draw_char"
  /\ UNCHANGED <<glyphfixed, ret_char>>

\* epd_text_draw_string(wrapper, x, y, text, config)
DrawString ==
  /\ pc = "idle" /\ fn = "none"
  /\ LET d == epd_text_draw_string(arg.x, arg.y, buf, config)
     IN  /\ ret' = d.advance
         /\ written' = d.boxes
  /\ fn' = "draw_string"
  /\ UNCHANGED <<glyphfixed, ret_char, glyphs>>

GlyphNext == FindChar \/ DrawChar \/ DrawString

SpecGlyph == GlyphInit /\ [][GlyphNext]_vars

(***************************************************************************)
(* epd_text_calc_width and epd_text_draw_string of the wrap_width revision *)
(* (epd_text.c:881-982) and of the revision that expands tabs (part_001)   *)
(***************************************************************************)
EPD_TEXT_ALIGN_LEFT == 0
EPD_TEXT_ALIGN_CENTER == 1
EPD_TEXT_ALIGN_RIGHT == 2

\* FontCharInfo of these revisions: the advance is the field width
LineGlyph(cp, w) == [code_point |-> cp, width |-> w, img_width |-> w, img_height |-> 16]

\* the NULL result of their lookups
NullGlyph == [code_point |-> -1, width |-> 0, img_width |-> 0, img_height |-> 0]

\* a font with 'A' and U+304C, and the same font with a glyph for the space
LineFont ==
  [size |-> 16, max_height |-> 16, chars |-> <<LineGlyph(65, 8), LineGlyph(12364, 16)>>]
LineFontWithSpace ==
  [size |-> 16, max_height |-> 16,
   chars |-> <<LineGlyph(32, 4), LineGlyph(65, 8), LineGlyph(12364, 16)>>]

\* the characters of the texts: 'A', 'B' (no glyph), the space, the tab and
\* U+304C
LineTextChars == {<<65>>, <<66>>, <<32>>, <<9>>, <<227, 129, 140>>}

LineTexts == {Flatten(cs) : cs \in SeqsUpTo(LineTextChars, MaxLineChars)}

\* wrap_width 64 holds every text of MaxLineChars characters
LineConfigs ==
  [font : {LineFont, LineFontWithSpace}, vertical : BOOLEAN, char_spacing : {0, 2},
   line_spacing : {4}, alignment : {EPD_TEXT_ALIGN_LEFT, EPD_TEXT_ALIGN_CENTER,
                                    EPD_TEXT_ALIGN_RIGHT},
   rotate_non_cjk : {TRUE}, wrap_width : {64}]

\* the binary search of the wrap_width revision: the index found, 0 for none
RECURSIVE LegacyIndex(_, _, _, _)
LegacyIndex(chars, cp, low, high) ==
  IF low > high THEN 0
  ELSE LET mid == (low + high) \div 2
       IN  IF chars[mid].code_point < cp THEN LegacyIndex(chars, cp, mid + 1, high)
           ELSE IF chars[mid].code_point > cp THEN LegacyIndex(chars, cp, low, mid - 1)
           ELSE mid

LegacyFindChar(font, cp) ==
  LET k == LegacyIndex(font.chars, cp, 1, Len(font.chars))
  IN  IF Len(font.chars) = 0 \/ k = 0 THEN NullGlyph ELSE font.chars[k]

\* the glyph draw_bitmap_1bit is called for
DrawnGlyph(cp, x, y, w, h) == [code_point |-> cp, x |-> x, y |-> y, width |-> w, height |-> h]

\* epd_text_draw_char of the wrap_width revision
LegacyDrawChar(x, y, cp, cfg) ==
  LET char_info == LegacyFindChar(cfg.font, cp)
      should_rotate == cfg.rotate_non_cjk /\ (cp \in 32..127 \/ cp \in 65281..65374)
      yy == IF cfg.vertical /\ should_rotate THEN y - char_info.width ELSE y
  IN  IF char_info = NullGlyph THEN [advance |-> cfg.font.size \div 2, glyphs |-> <<>>]
      ELSE [advance |-> char_info.width,
            glyphs |-> <<DrawnGlyph(cp, x, yy, char_info.img_width, char_info.img_height)>>]

\* epd_text_calc_width of the wrap_width revision, from cursor p on
RECURSIVE LegacyCalcWidthFrom(_, _, _, _)
LegacyCalcWidthFrom(m, p, total_width, cfg) ==
  LET r == LegacyNextChar(m, p)
      char_info == LegacyFindChar(cfg.font, r.cp)
      w == IF char_info # NullGlyph THEN char_info.width ELSE cfg.font.size \div 2
      spacing == IF MemAt(m, r.next) # 0 THEN cfg.char_spacing ELSE 0
  IN  IF r.cp = 0 THEN total_width
      ELSE LegacyCalcWidthFrom(m, r.next, total_width + w + spacing, cfg)

LegacyCalcWidth(m, cfg) == LegacyCalcWidthFrom(m, 1, 0, cfg)

\* the drawing loop of epd_text_draw_string of the wrap_width revision
RECURSIVE LegacyDrawStringFrom(_, _, _, _, _, _, _, _)
LegacyDrawStringFrom(m, p, cur_x, cur_y, gs, cfg, start_x, y) ==
  LET r == LegacyNextChar(m, p)
      char_info == LegacyFindChar(cfg.font, r.cp)
      d == LegacyDrawChar(cur_x, cur_y, r.cp, cfg)
  IN  IF r.cp = 0
      THEN [advance |-> IF cfg.vertical THEN cur_y - y ELSE cur_x - start_x, glyphs |-> gs]
      ELSE IF char_info = NullGlyph
      THEN LegacyDrawStringFrom(m, r.next, cur_x + cfg.font.size \div 2 + cfg.char_spacing,
                                cur_y, gs, cfg, start_x, y)
      ELSE IF cfg.vertical
      THEN LegacyDrawStringFrom(m, r.next, cur_x, cur_y + d.advance + cfg.char_spacing,
                                gs \o d.glyphs, cfg, start_x, y)
      ELSE LegacyDrawStringFrom(m, r.next, cur_x + d.advance + cfg.char_spacing, cur_y,
                                gs \o d.glyphs, cfg, start_x, y)

\* epd_text_draw_string of the wrap_width revision: the start position is
\* moved back from (x, y) by the alignment
LegacyDrawString(x, y, m, cfg) ==
  LET text_width == IF cfg.alignment # EPD_TEXT_ALIGN_LEFT THEN LegacyCalcWidth(m, cfg) ELSE 0
      back == IF cfg.alignment = EPD_TEXT_ALIGN_CENTER THEN text_width \div 2
              ELSE IF cfg.alignment = EPD_TEXT_ALIGN_RIGHT THEN text_width
              ELSE 0
      start_x == x - back
  IN  IF cfg.vertical THEN LegacyDrawStringFrom(m, 1, x, y - back, <<>>, cfg, start_x, y)
      ELSE LegacyDrawStringFrom(m, 1, start_x, y, <<>>, cfg, start_x, y)

\* epd_text_utf8_next_char of the revision that expands tabs
TabNextChar(m, q) ==
  LET b == MemAt(m, q)
      b1 == MemAt(m, q + 1)
      b2 == MemAt(m, q + 2)
      b3 == MemAt(m, q + 3)
      bad == [cp |-> REPLACEMENT, next |-> q + 1]
  IN  IF b = 0 THEN [cp |-> 0, next |-> q]
      ELSE IF b < 128 THEN [cp |-> b, next |-> q + 1]
      ELSE IF b \div 32 = 6
      THEN (IF b1 = 0 THEN bad ELSE [cp |-> (b % 32) * 64 + (b1 % 64), next |-> q + 2])
      ELSE IF b \div 16 = 14
      THEN (IF b1 = 0 \/ b2 = 0 THEN bad
            ELSE [cp |-> (b % 16) * 4096 + (b1 % 64) * 64 + (b2 % 64), next |-> q + 3])
      ELSE IF b \div 8 = 30
      THEN (IF b1 = 0 \/ b2 = 0 \/ b3 = 0 THEN bad
            ELSE [cp |-> (b % 8) * 262144 + (b1 % 64) * 4096 + (b2 % 64) * 64 + (b3 % 64),
                  next |-> q + 4])
      ELSE bad

\* epd_text_find_char of that revision
TabFindChar(font, cp) ==
  LET k == BinarySearch(font.chars, cp, 1, Len(font.chars))
  IN  IF Len(font.chars) = 0 \/ k = 0 THEN NullGlyph ELSE font.chars[k]

epd_text_is_cjk(cp) ==
  \/ cp \in 19968..40959 \/ cp \in 13312..19903 \/ cp \in 131072..173791
  \/ cp \in 173824..177983 \/ cp \in 177984..178207 \/ cp \in 178208..183983
  \/ cp \in 183984..191471 \/ cp \in 196608..201551
  \/ cp \in 12352..12447 \/ cp \in 12448..12543 \/ cp \in 65382..65439
  \/ cp \in 12544..12591 \/ cp \in 12784..12799 \/ cp \in 12592..12687
  \/ cp \in 44032..55215

\* epd_text_draw_char of that revision, with the transparent background that
\* epd_text_config_init sets: the advance of a glyph includes char_spacing,
\* the fallback advance and the advance of a rotated glyph do not
TabDrawChar(x, y, cp, cfg) ==
  LET char_info == TabFindChar(cfg.font, cp)
      need_rotation == cfg.vertical /\ cfg.rotate_non_cjk /\ ~epd_text_is_cjk(cp)
      char_width == char_info.width
      char_height == cfg.font.max_height
      draw_x == IF ~cfg.vertical THEN x
                ELSE IF need_rotation THEN x - (char_height \div 2)
                ELSE x - (char_width \div 2)
  IN  IF char_info = NullGlyph THEN [advance |-> cfg.font.size \div 2, glyphs |-> <<>>]
      ELSE IF need_rotation
      THEN [advance |-> char_height,
            glyphs |-> <<DrawnGlyph(cp, draw_x, y, char_info.img_height, char_info.img_width)>>]
      ELSE [advance |-> char_width + cfg.char_spacing,
            glyphs |-> <<DrawnGlyph(cp, draw_x, y, char_info.img_width, char_info.img_height)>>]

\* the tab branch of the drawing loop: four calls of draw_char for ' '
RECURSIVE TabExpand(_, _, _, _, _)
TabExpand(i, cur_x, cur_y, gs, cfg) ==
  LET d == TabDrawChar(cur_x, cur_y, 32, cfg)
  IN  IF i >= 4 THEN [x |-> cur_x, y |-> cur_y, glyphs |-> gs]
      ELSE IF cfg.vertical
      THEN TabExpand(i + 1, cur_x, cur_y + d.advance, gs \o d.glyphs, cfg)
      ELSE TabExpand(i + 1, cur_x + d.advance, cur_y, gs \o d.glyphs, cfg)

\* the drawing loop of epd_text_draw_string of that revision
RECURSIVE TabDrawStringFrom(_, _, _, _, _, _, _, _)
TabDrawStringFrom(m, p, cur_x, cur_y, gs, cfg, start_x, start_y) ==
  LET r == TabNextChar(m, p)
      pitch == cfg.font.max_height + cfg.line_spacing
      t == TabExpand(0, cur_x, cur_y, gs, cfg)
      d == TabDrawChar(cur_x, cur_y, r.cp, cfg)
  IN  IF r.cp = 0
      THEN [advance |-> IF cfg.vertical THEN cur_y - start_y ELSE cur_x - start_x,
            glyphs |-> gs]
      ELSE IF r.cp = 10
      THEN (IF cfg.vertical
            THEN TabDrawStringFrom(m, r.next, cur_x - pitch, start_y, gs, cfg, start_x, start_y)
            ELSE TabDrawStringFrom(m, r.next, start_x, cur_y + pitch, gs, cfg, start_x, start_y))
      ELSE IF r.cp = 9
      THEN TabDrawStringFrom(m, r.next, t.x, t.y, t.glyphs, cfg, start_x, start_y)
      ELSE IF cfg.vertical
      THEN TabDrawStringFrom(m, r.next, cur_x, cur_y + d.advance, gs \o d.glyphs, cfg,
                             start_x, start_y)
      ELSE TabDrawStringFrom(m, r.next, cur_x + d.advance, cur_y, gs \o d.glyphs, cfg,
                             start_x, start_y)

\* epd_text_calc_width of that revision, from cursor p on
RECURSIVE TabCalcWidthFrom(_, _, _, _, _)
TabCalcWidthFrom(m, p, width, max_width, cfg) ==
  LET r == TabNextChar(m, p)
      space_info == TabFindChar(cfg.font, 32)
      char_info == TabFindChar(cfg.font, r.cp)
      fallback == cfg.font.size \div 2 + cfg.char_spacing
  IN  IF r.cp = 0
      THEN (IF ~cfg.vertical THEN (IF width > max_width THEN width ELSE max_width) ELSE width)
      ELSE IF r.cp = 10
      THEN (IF ~cfg.vertical
            THEN TabCalcWidthFrom(m, r.next, 0, IF width > max_width THEN width ELSE max_width,
                                  cfg)
            ELSE TabCalcWidthFrom(m, r.next, width, max_width, cfg))
      ELSE IF r.cp = 9
      THEN TabCalcWidthFrom(m, r.next,
                            width + (IF space_info # NullGlyph
                                     THEN (space_info.width + cfg.char_spacing) * 4
                                     ELSE fallback * 4),
                            max_width, cfg)
      ELSE TabCalcWidthFrom(m, r.next,
                            width + (IF char_info # NullGlyph
                                     THEN char_info.width + cfg.char_spacing ELSE fallback),
                            max_width, cfg)

TabCalcWidth(m, cfg) == TabCalcWidthFrom(m, 1, 0, 0, cfg)

\* epd_text_draw_string of that revision
TabDrawString(x, y, m, cfg) ==
  LET total_width == IF cfg.alignment # EPD_TEXT_ALIGN_LEFT THEN TabCalcWidth(m, cfg) ELSE 0
      back == IF cfg.alignment = EPD_TEXT_ALIGN_CENTER THEN total_width \div 2
              ELSE IF cfg.alignment = EPD_TEXT_ALIGN_RIGHT THEN total_width
              ELSE 0
      start_x == IF cfg.vertical THEN x ELSE x - back
      start_y == IF cfg.vertical THEN y - back ELSE y
  IN  TabDrawStringFrom(m, 1, start_x, start_y, <<>>, cfg, start_x, start_y)

LineInit ==
  /\ buf \in {CString(t) : t \in LineTexts}
  /\ config \in LineConfigs
  /\ revision \in {"wrap_width", "tab_expansion"}
  /\ HeapIdle
  /\ GlobalsIdle
  /\ SystemIdle
  /\ wrapper = ReadyWrapper
  /\ arg = [cp |-> 0, x |-> 100, y |-> 100]
  /\ fn = "none"
  /\ ret = 0
  /\ ret_char = NullChar
  /\ measured = 0
  /\ glyphs = <<>>
  /\ PixelIdle
  /\ Utf8Idle
  /\ LegacyIdle
  /\ rect = [x |-> 0, y |-> 0, width |-> 0, height |-> 0]
  /\ pc = "idle"
  /\ text_copy = <<>>
  /\ save_ptr = 0 /\ token = 0 /\ current = 0
  /\ segment_start = 0 /\ segment_width = 0 /\ segment_height = 0
  /\ last_code_point = 0 /\ prev_char_start = 0
  /\ segments = <<>> /\ seg_i = 0 /\ line_count = 0
  /\ current_x = 0 /\ current_y = 0
  /\ scan = NoScan /\ lines = <<>> /\ written = {}

linefixed == <<utf8vars, legacyvars, mlvars, wrapper, arg, ret_char, revision, pixelvars, heapvars, globalvars, systemvars>>

\* epd_text_calc_width(text, config), wrap_width revision
LegacyCalcWidthCall ==
  /\ revision = "wrap_width" /\ fn = "none"
  /\ measured' = LegacyCalcWidth(buf, config)
  /\ fn' = "calc_width"
  /\ UNCHANGED <<linefixed, ret, glyphs>>

\* epd_text_draw_string(wrapper, x, y, text, config), wrap_width revision
LegacyDrawStringCall ==
  /\ revision = "wrap_width" /\ fn = "calc_width"
  /\ LET d == LegacyDrawString(arg.x, arg.y, buf, config)
     IN  /\ ret' = d.advance
         /\ glyphs' = d.glyphs
  /\ fn' = "draw_string"
  /\ UNCHANGED <<linefixed, measured>>

\* epd_text_calc_width(text, config), revision that expands tabs
TabCalcWidthCall ==
  /\ revision = "tab_expansion" /\ fn = "none"
  /\ measured' = TabCalcWidth(buf, config)
  /\ fn' = "calc_width"
  /\ UNCHANGED <<linefixed, ret, glyphs>>

\* epd_text_draw_string(wrapper, x, y, text, config), revision that expands tabs
TabDrawStringCall ==
  /\ revision = "tab_expansion" /\ fn = "calc_width"
  /\ LET d == TabDrawString(arg.x, arg.y, buf, config)
     IN  /\ ret' = d.advance
         /\ glyphs' = d.glyphs
  /\ fn' = "draw_string"
  /\ UNCHANGED <<linefixed, measured>>

LineNext == LegacyCalcWidthCall \/ LegacyDrawStringCall \/ TabCalcWidthCall \/ TabDrawStringCall

SpecLine == LineInit /\ [][LineNext]_vars

(***************************************************************************)
(* epd_wrapper_draw_pixel and the pixel loop of draw_rotated_char on a     *)
(* panel of PanelWidth x PanelHeight pixels                                *)
(***************************************************************************)
\* EPD_DISPLAY_WIDTH and EPD_DISPLAY_HEIGHT of the small panel
PanelWidth == 8
PanelHeight == 2

\* the size of the buffer in bytes
FramebufferBytes == (PanelWidth * PanelHeight) \div 2

\* the % of C: the remainder has the sign of the dividend
CRem(a, b) == a - b * CDiv(a, b)

\* (framebuffer[byte_pos] & 0xF0) | (color & 0x0F)
LowNibble(old, color) == (old \div 16) * 16 + (color % 16)

\* the same assignment without the mask of the old byte
HighNibbleUnmasked(old, color) == (color % 16) * 16

\* (framebuffer[byte_pos] & 0x0F) | ((color & 0x0F) << 4)
HighNibble(old, color) == (old % 16) + (color % 16) * 16

\* one call for a panel of the given width.  mem is the memory: fb the buffer
\* (byte_pos + 1 is the index), stray the byte positions written outside of
\* it, crashed whether such a write ended the program; ub is the outcome the
\* build gives a write outside the buffer
epd_wrapper_draw_pixel(mem, width, x, y, color, ub) ==
  LET pos == y * width + x
      byte_pos == CDiv(pos, 2)
  IN  IF wrapper.addr = 0 \/ ~wrapper.is_initialized \/ wrapper.framebuffer = 0 THEN mem
      ELSE IF mem.crashed THEN mem
      ELSE IF byte_pos \notin 0..(Len(mem.fb) - 1)
      THEN (IF ub = "crash" THEN [mem EXCEPT !.crashed = TRUE]
            ELSE [mem EXCEPT !.stray = @ \cup {byte_pos}])
      ELSE IF CRem(pos, 2) = 0
      THEN [mem EXCEPT !.fb[byte_pos + 1] = LowNibble(@, color)]
      ELSE [mem EXCEPT !.fb[byte_pos + 1] = HighNibble(@, color)]

\* a glyph 3 wide and 2 high with the rows 101 and 111, one byte per row
PixelGlyph ==
  [code_point |-> 65, img_width |-> 3, img_height |-> 2, typo_flags |-> 0,
   rotation |-> 0, x_offset |-> 0, y_offset |-> 0]
PixelBitmap == <<160, 224>>

\* (bitmap[byte_index] & (1 << bit_index)) != 0
PixelIsSet(bitmap, bytes_per_row, dx, dy) ==
  LET byte_index == (dy * bytes_per_row) + (dx \div 8)
      bit_index == 7 - (dx % 8)
  IN  (bitmap[byte_index + 1] \div (2 ^ bit_index)) % 2 = 1

\* the calls of epd_wrapper_draw_pixel the two loops of draw_rotated_char
\* make from pixel k = dy * width + dx on, in their order
RECURSIVE RotatedCharCalls(_, _, _, _, _, _, _, _, _)
RotatedCharCalls(k, x, y, char_info, bitmap, rotation, text_color, bg_color, bg_transparent) ==
  LET w == char_info.img_width
      h == char_info.img_height
      dx == k % w
      dy == k \div w
      draw_x == IF rotation = 1 THEN x + h - 1 - dy
                ELSE IF rotation = 2 THEN x + w - 1 - dx
                ELSE IF rotation = 3 THEN x + dy
                ELSE x + dx
      draw_y == IF rotation = 1 THEN y + dx
                ELSE IF rotation = 2 THEN y + h - 1 - dy
                ELSE IF rotation = 3 THEN y + w - 1 - dx
                ELSE y + dy
      rest == RotatedCharCalls(k + 1, x, y, char_info, bitmap, rotation, text_color, bg_color,
                               bg_transparent)
  IN  IF char_info.code_point = 32 \/ char_info.code_point = 12288 THEN <<>>
      ELSE IF k >= w * h THEN <<>>
      ELSE IF PixelIsSet(bitmap, (w + 7) \div 8, dx, dy)
      THEN <<[x |-> draw_x, y |-> draw_y, color |-> text_color]>> \o rest
      ELSE IF ~bg_transparent
      THEN <<[x |-> draw_x, y |-> draw_y, color |-> bg_color]>> \o rest
      ELSE rest

\* the memory after the calls
RECURSIVE ApplyCalls(_, _, _, _)
ApplyCalls(mem, width, calls, ub) ==
  IF calls = <<>> THEN mem
  ELSE ApplyCalls(epd_wrapper_draw_pixel(mem, width, Head(calls).x, Head(calls).y,
                                         Head(calls).color, ub),
                  width, Tail(calls), ub)

\* what the buffer holds before the call: white, black, and a pattern
PanelContents ==
  {[i \in 1..FramebufferBytes |-> 255], [i \in 1..FramebufferBytes |-> 0],
   [i \in 1..FramebufferBytes |-> 90]}

PixelInit ==
  /\ framebuffer \in PanelContents
  /\ fb_before = framebuffer
  /\ pixel_log = <<>>
  /\ stray = {}
  /\ wrapper \in {ReadyWrapper, DeinitWrapper}
  /\ fn = "none"
  /\ arg = NoArg
  /\ ret = 0
  /\ ret_char = NullChar
  /\ revision = "typo_flag"
  /\ HeapIdle
  /\ GlobalsIdle
  /\ SystemIdle
  /\ measured = 0
  /\ glyphs = <<>>
  /\ buf = <<0>>
  /\ Utf8Idle
  /\ LegacyIdle
  /\ MultilineIdle

pixelfixed == <<utf8vars, legacyvars, rect, config, text_copy, save_ptr, token, current,
                segment_start, segment_width, segment_height, last_code_point,
                prev_char_start, segments, seg_i, line_count, current_x, current_y, scan,
                lines, written, wrapper, ret, ret_char, revision, measured, glyphs,
                fb_before, heapvars, globalvars, systemvars>>

\* the memory after the calls becomes the state
PixelCallsDone(calls, ub) ==
  LET mem == ApplyCalls([fb |-> framebuffer, stray |-> {}, crashed |-> FALSE], PanelWidth,
                        calls, ub)
  IN  /\ framebuffer' = mem.fb
      /\ stray' = mem.stray
      /\ pc' = IF mem.crashed THEN "crashed" ELSE pc
      /\ pixel_log' = calls

\* epd_wrapper_draw_pixel(wrapper, x, y, color)
DrawPixel ==
  /\ fn = "none"
  /\ \E x \in (-2)..PanelWidth, y \in (-1)..PanelHeight, color \in {0, 9}, ub \in {"crash", "stray"} :
        /\ PixelCallsDone(<<[x |-> x, y |-> y, color |-> color]>>, ub)
        /\ arg' = [cp |-> 0, x |-> x, y |-> y]
  /\ fn' = "draw_pixel"
  /\ UNCHANGED pixelfixed

\* draw_rotated_char(wrapper, x, y, char_info, bitmap, rotation, 9, 15, true)
DrawRotatedChar ==
  /\ fn = "none"
  /\ \E x \in (-2)..PanelWidth, y \in (-1)..PanelHeight, rotation \in 0..3, ub \in {"crash", "stray"} :
        /\ PixelCallsDone(RotatedCharCalls(0, x, y, PixelGlyph, PixelBitmap, rotation, 9, 15,
                                           TRUE), ub)
        /\ arg' = [cp |-> PixelGlyph.code_point, x |-> x, y |-> y]
  /\ fn' = "draw_rotated_char"
  /\ UNCHANGED pixelfixed

PixelNext == DrawPixel \/ DrawRotatedChar

SpecPixel == PixelInit /\ [][PixelNext]_vars

(***************************************************************************)
(* The drawing functions of the typo-flag revision called with a NULL      *)
(* font, without framebuffer, or with an empty rectangle                   *)
(***************************************************************************)
\* a FontInfo that was zeroed and never filled
ZeroFont == [size |-> 0, max_width |-> 0, max_height |-> 0, chars |-> <<>>]

ShortTexts == {Flatten(cs) : cs \in SeqsUpTo(TextChars, 2)}

\* rectangles without width and without height, and one with both
ArgRects ==
  {[x |-> 10, y |-> 10, width |-> 0, height |-> 40],
   [x |-> 10, y |-> 10, width |-> 20, height |-> 0],
   [x |-> 10, y |-> 10, width |-> 20, height |-> 40]}

\* line_spacing 0 is what a zeroed EPDTextConfig holds
ArgConfigs ==
  [font : {Font, NullFont, ZeroFont}, vertical : BOOLEAN, mono_spacing : {FALSE},
   box_padding : {0}, char_spacing : {0}, line_spacing : {0, 4}, underline : {FALSE}]

\* pc = "call": epd_text_draw_multiline is called; pc = "idle": one of
\* epd_text_draw_char and epd_text_draw_string is
ArgsInit ==
  /\ buf \in {CString(t) : t \in ShortTexts}
  /\ rect \in ArgRects
  /\ config \in ArgConfigs
  /\ wrapper \in Wrappers
  /\ pc \in {"call", "idle"}
  /\ arg = [cp |-> 65, x |-> 10, y |-> 10]
  /\ fn = "none"
  /\ ret = 0
  /\ ret_char = NullChar
  /\ revision = "typo_flag"
  /\ HeapIdle
  /\ GlobalsIdle
  /\ SystemIdle
  /\ measured = 0
  /\ glyphs = <<>>
  /\ PixelIdle
  /\ Utf8Idle
  /\ LegacyIdle
  /\ text_copy = <<>>
  /\ save_ptr = 0 /\ token = 0 /\ current = 0
  /\ segment_start = 0 /\ segment_width = 0 /\ segment_height = 0
  /\ last_code_point = 0 /\ prev_char_start = 0
  /\ segments = <<>> /\ seg_i = 0 /\ line_count = 0
  /\ current_x = 0 /\ current_y = 0
  /\ scan = NoScan /\ lines = <<>> /\ written = {}

ArgsNext == Next \/ DrawChar \/ DrawString

SpecArgs == ArgsInit /\ [][ArgsNext]_vars

(***************************************************************************)
(* The two multi-line drawers while malloc can return NULL                 *)
(***************************************************************************)
MaxAllocGlyphs == 3

AllocTexts == {Flatten(cs) : cs \in SeqsUpTo(TextChars, MaxAllocGlyphs)}

AllocInit ==
  \/ /\ buf \in {CString(t) : t \in AllocTexts}
     /\ rect \in Rects
     /\ config \in Configs
     /\ pc = "call"
     /\ Utf8Idle
     /\ LegacyIdle
     /\ ApiIdle
     /\ revision = "typo_flag"
     /\ may_fail = TRUE /\ heap = <<>> /\ failed = <<>>
     /\ GlobalsIdle
     /\ SystemIdle
     /\ text_copy = <<>>
     /\ save_ptr = 0 /\ token = 0 /\ current = 0
     /\ segment_start = 0 /\ segment_width = 0 /\ segment_height = 0
     /\ last_code_point = 0 /\ prev_char_start = 0
     /\ segments = <<>> /\ seg_i = 0 /\ line_count = 0
     /\ current_x = 0 /\ current_y = 0
     /\ scan = NoScan /\ lines = <<>> /\ written = {}
  \/ LegacyInit

AllocNext == Next \/ LegacyNext

SpecAlloc == AllocInit /\ [][AllocNext]_vars

(***************************************************************************)
(* epd_text_find_char called several times, with the globals harf_sp and   *)
(* full_sp it writes and a caller that keeps a pointer it returned         *)
(***************************************************************************)
MaxFindCalls == 3

\* fonts of both sizes, with the whole table and without glyphs
FindFonts == {f \in GlyphFonts : Len(f.chars) \in {0, Cardinality(TableCodePoints)}}

\* the record a pointer points at, with the globals g
Deref(g, p) ==
  IF p.region = "harf_sp" THEN g.harf_sp
  ELSE IF p.region = "full_sp" THEN g.full_sp
  ELSE IF p.region = "chars" THEN p.font.chars[p.index]
  ELSE NullChar

\* epd_text_find_char(font, code_point) with the globals g: the pointer it
\* returns and the globals afterwards
FindCharGlobals(g, font, cp) ==
  IF font = NullFont \/ Len(font.chars) = 0 THEN [ptr |-> NullPtr, globals |-> g]
  ELSE IF cp = 32
  THEN [ptr |-> [region |-> "harf_sp", font |-> NullFont, index |-> 0],
        globals |-> [g EXCEPT !.harf_sp.img_width = font.size \div 2,
                              !.harf_sp.img_height = font.size]]
  ELSE IF cp = 12288
  THEN [ptr |-> [region |-> "full_sp", font |-> NullFont, index |-> 0],
        globals |-> [g EXCEPT !.full_sp.img_width = font.size,
                              !.full_sp.img_height = font.size]]
  ELSE LET k == BinarySearch(font.chars, cp, 1, Len(font.chars))
       IN  [ptr |-> IF k = 0 THEN NullPtr ELSE [region |-> "chars", font |-> font, index |-> k],
            globals |-> g]

FindInit ==
  /\ buf = CString(<<65>>)
  /\ config \in [font : FindFonts, vertical : {FALSE}, mono_spacing : {FALSE},
                 box_padding : {0}, char_spacing : {0}, line_spacing : {4},
                 underline : {FALSE}]
  /\ wrapper = ReadyWrapper
  /\ arg \in [cp : LookupCodePoints, x : {10}, y : {10}]
  /\ fn = "none"
  /\ ret = 0
  /\ ret_char = NullChar
  /\ revision = "typo_flag"
  /\ HeapIdle
  /\ GlobalsIdle
  /\ SystemIdle
  /\ measured = 0
  /\ glyphs = <<>>
  /\ PixelIdle
  /\ Utf8Idle
  /\ LegacyIdle
  /\ rect = [x |-> 0, y |-> 0, width |-> 0, height |-> 0]
  /\ pc = "idle"
  /\ text_copy = <<>>
  /\ save_ptr = 0 /\ token = 0 /\ current = 0
  /\ segment_start = 0 /\ segment_width = 0 /\ segment_height = 0
  /\ last_code_point = 0 /\ prev_char_start = 0
  /\ segments = <<>> /\ seg_i = 0 /\ line_count = 0
  /\ current_x = 0 /\ current_y = 0
  /\ scan = NoScan /\ lines = <<>> /\ written = {}

findfixed == <<utf8vars, legacyvars, mlvars, wrapper, ret, revision, measured, glyphs,
               pixelvars, heapvars, systemvars>>

\* a call epd_text_find_char(config->font, code_point); the caller keeps the
\* pointer (keep) or goes on with the one it has
FindCall ==
  /\ pc = "idle" /\ fn = "none" /\ find_calls < MaxFindCalls
  /\ LET r == FindCharGlobals(space_glyphs, config.font, arg.cp)
     IN  /\ space_glyphs' = r.globals
         /\ ret_char' = Deref(r.globals, r.ptr)
         /\ \E keep \in BOOLEAN :
              held' = IF keep THEN [ptr |-> r.ptr, fields |-> Deref(r.globals, r.ptr)]
                      ELSE held
  /\ fn' = "find_char"
  /\ find_calls' = find_calls + 1
  /\ UNCHANGED <<findfixed, config, arg>>

\* the caller sets up the next call: another font, another code point
FindArguments ==
  /\ pc = "idle" /\ fn = "find_char" /\ find_calls < MaxFindCalls
  /\ \E font \in FindFonts, cp \in LookupCodePoints :
       /\ config' = [config EXCEPT !.font = font]
       /\ arg' = [arg EXCEPT !.cp = cp]
  /\ fn' = "none"
  /\ UNCHANGED <<utf8vars, legacyvars, rect, pc, text_copy, save_ptr, token, current,
                 segment_start, segment_width, segment_height, last_code_point,
                 prev_char_start, segments, seg_i, line_count, current_x, current_y, scan,
                 lines, written, wrapper, ret, ret_char, revision, measured, glyphs, pixelvars,
                 heapvars, globalvars, systemvars>>

FindNext == FindCall \/ FindArguments

SpecFind == FindInit /\ [][FindNext]_vars

(***************************************************************************)
(* The tasks of the application (epd_main.c): app_main, the task it        *)
(* creates for the touch panel and the task uart_command_start creates.    *)
(* A task is inside the call its position names.                           *)
(***************************************************************************)
\* the calls that write the framebuffer of the wrapper epd
MutatingCalls ==
  {"epd_wrapper_clear_cycles", "epd_wrapper_draw_rect", "epd_wrapper_fill_circle",
   "epd_wrapper_fill"}

\* the same statements with the frame drawn after the touch task was created
AppMainStepsDrawLast ==
  <<"epd_wrapper_init", "uart_command_init", "uart_command_start", "i2c_initialize",
    "gt911_init", "xTaskCreate", "epd_wrapper_clear_cycles", "epd_wrapper_draw_rect",
    "epd_wrapper_update_screen", "return">>

\* the statements of app_main in their order
AppMainSteps ==
  <<"epd_wrapper_init", "uart_command_init", "uart_command_start",
    "epd_wrapper_clear_cycles", "epd_wrapper_draw_rect", "epd_wrapper_update_screen",
    "i2c_initialize", "gt911_init", "xTaskCreate", "return">>

\* the statements after which app_main returns when they fail
MayFail == {"epd_wrapper_init", "uart_command_init", "i2c_initialize", "gt911_init"}

\* the statement after the statement s of app_main
StepAfter(s) ==
  LET i == CHOOSE k \in 1..Len(AppMainSteps) : AppMainSteps[k] = s
  IN  AppMainSteps[i + 1]

\* if (circle_count >= 10)
CIRCLES_BEFORE_CLEAR == 10

TasksInit ==
  /\ task_pc = [t \in Tasks |-> IF t = "main" THEN AppMainSteps[1] ELSE "absent"]
  /\ circle_count = 0
  /\ buf = <<0>>
  /\ Utf8Idle
  /\ LegacyIdle
  /\ MultilineIdle
  /\ ApiIdle
  /\ revision = "typo_flag"
  /\ HeapIdle
  /\ GlobalsIdle
  /\ ServicesIdle

\* app_main ends the statement it is in
MainStep ==
  /\ task_pc["main"] \notin {"absent", "return"}
  /\ LET s == task_pc["main"]
     IN  \/ /\ s \in MayFail
            /\ task_pc' = [task_pc EXCEPT !["main"] = "return"]
         \/ /\ s = "uart_command_start"
            /\ task_pc' = [task_pc EXCEPT !["main"] = StepAfter(s),
                                          !["uart"] = "uart_read_bytes"]
         \/ /\ s = "xTaskCreate"
            /\ \E created \in BOOLEAN :
                 task_pc' = [task_pc EXCEPT !["main"] = StepAfter(s),
                                            !["touch"] = IF created THEN "gt911_read_registers"
                                                         ELSE "absent"]
         \/ /\ s \notin {"uart_command_start", "xTaskCreate"}
            /\ task_pc' = [task_pc EXCEPT !["main"] = StepAfter(s)]
  /\ UNCHANGED <<textvars, servicevars, circle_count>>

\* touch_handling_task reads the status register: a touch inside the panel,
\* or none
TouchPoll ==
  /\ task_pc["touch"] = "gt911_read_registers"
  /\ \E touched \in BOOLEAN :
       task_pc' = [task_pc EXCEPT !["touch"] = IF touched THEN "epd_wrapper_fill_circle"
                                               ELSE "check"]
  /\ UNCHANGED <<textvars, servicevars, circle_count>>

\* epd_wrapper_fill_circle returns; circle_count++
TouchCircle ==
  /\ task_pc["touch"] = "epd_wrapper_fill_circle"
  /\ circle_count' = circle_count + 1
  /\ task_pc' = [task_pc EXCEPT !["touch"] = "epd_wrapper_update_screen"]
  /\ UNCHANGED <<textvars, servicevars>>

\* the update after a circle returns: the next touch point, or the end of
\* the loop over the points
TouchUpdate ==
  /\ task_pc["touch"] = "epd_wrapper_update_screen"
  /\ \E more \in BOOLEAN :
       /\ more => circle_count < CIRCLES_BEFORE_CLEAR + 4
       /\ task_pc' = [task_pc EXCEPT !["touch"] = IF more THEN "epd_wrapper_fill_circle"
                                                  ELSE "check"]
  /\ UNCHANGED <<textvars, servicevars, circle_count>>

\* if (circle_count >= 10) the screen is cleared
TouchCheck ==
  /\ task_pc["touch"] = "check"
  /\ task_pc' = [task_pc EXCEPT !["touch"] = IF circle_count >= CIRCLES_BEFORE_CLEAR
                                             THEN "epd_wrapper_fill" ELSE "vTaskDelay"]
  /\ UNCHANGED <<textvars, servicevars, circle_count>>

\* epd_wrapper_fill, epd_wrapper_draw_rect, epd_wrapper_update_screen,
\* circle_count = 0
TouchClear ==
  /\ task_pc["touch"] \in {"epd_wrapper_fill", "epd_wrapper_draw_rect", "update_after_clear"}
  /\ task_pc' = [task_pc EXCEPT !["touch"] =
                   IF @ = "epd_wrapper_fill" THEN "epd_wrapper_draw_rect"
                   ELSE IF @ = "epd_wrapper_draw_rect" THEN "update_after_clear"
                   ELSE "vTaskDelay"]
  /\ circle_count' = IF task_pc["touch"] = "update_after_clear" THEN 0 ELSE circle_count
  /\ UNCHANGED <<textvars, servicevars>>

\* vTaskDelay(50 / portTICK_PERIOD_MS) ends
TouchDelay ==
  /\ task_pc["touch"] = "vTaskDelay"
  /\ task_pc' = [task_pc EXCEPT !["touch"] = "gt911_read_registers"]
  /\ UNCHANGED <<textvars, servicevars, circle_count>>

\* uart_rx_task hands a packet to command_handler_process
UartPacket ==
  /\ task_pc["uart"] = "uart_read_bytes"
  /\ task_pc' = [task_pc EXCEPT !["uart"] = "command_handler_process"]
  /\ UNCHANGED <<textvars, servicevars, circle_count>>

\* the handler returns: it works on files and answers, it draws nothing
UartHandled ==
  /\ task_pc["uart"] = "command_handler_process"
  /\ task_pc' = [task_pc EXCEPT !["uart"] = "uart_read_bytes"]
  /\ UNCHANGED <<textvars, servicevars, circle_count>>

TasksNext ==
  \/ MainStep \/ TouchPoll \/ TouchCircle \/ TouchUpdate \/ TouchCheck \/ TouchClear
  \/ TouchDelay \/ UartPacket \/ UartHandled

SpecTasks == TasksInit /\ [][TasksNext]_vars

(***************************************************************************)
(* epd_text_draw_multiline (typo-flag revision) with paragraphs of about   *)
(* as many glyphs as the array segments has elements                       *)
(***************************************************************************)
MaxSegmentChars == 101

\* paragraphs of 'A's
RECURSIVE Repeat(_, _)
Repeat(b, n) == IF n = 0 THEN <<>> ELSE <<b>> \o Repeat(b, n - 1)

LongTexts == {Repeat(65, n) : n \in (MaxSegmentChars - 2)..MaxSegmentChars}

\* rectangles one glyph wide: 8 is the width of 'A', 16 the width of every
\* glyph with mono_spacing
NarrowRects ==
  {[x |-> 10, y |-> 10, width |-> 8, height |-> 40],
   [x |-> 10, y |-> 10, width |-> 16, height |-> 40]}

SegmentsInit ==
  /\ buf \in {CString(t) : t \in LongTexts}
  /\ rect \in NarrowRects
  /\ config \in [font : {Font}, vertical : {FALSE}, mono_spacing : BOOLEAN, box_padding : {0},
                 char_spacing : {0}, line_spacing : {4}, underline : {FALSE}]
  /\ pc = "call"
  /\ Utf8Idle
  /\ LegacyIdle
  /\ ApiIdle
  /\ revision = "typo_flag"
  /\ HeapIdle
  /\ GlobalsIdle
  /\ SystemIdle
  /\ text_copy = <<>>
  /\ save_ptr = 0 /\ token = 0 /\ current = 0
  /\ segment_start = 0 /\ segment_width = 0 /\ segment_height = 0
  /\ last_code_point = 0 /\ prev_char_start = 0
  /\ segments = <<>> /\ seg_i = 0 /\ line_count = 0
  /\ current_x = 0 /\ current_y = 0
  /\ scan = NoScan /\ lines = <<>> /\ written = {}

SpecSegments == SegmentsInit /\ [][Next]_vars

(***************************************************************************)
(* The rotation of a glyph in vertical writing                             *)
(***************************************************************************)

\* Font with the rotation fields of 'A' and U+304C as a generated table may
\* hold them (0: 0, 1: 90, 2: 180, 3: 270 degrees)
RotatedFont(ra, rk) == [Font EXCEPT !.chars[1].rotation = ra, !.chars[4].rotation = rk]

RotationFonts == {RotatedFont(ra, rk) : ra \in 0..3, rk \in 0..3}

\* the glyphs drawn: Latin, kana, and a bracket of the CJK punctuation block
RotationCodePoints == {65, 12300, 12364}

RotationInit ==
  /\ buf = CString(<<65>>)
  /\ config \in [font : RotationFonts, vertical : BOOLEAN, rotate_non_cjk : BOOLEAN,
                 mono_spacing : {FALSE}, box_padding : {0}, char_spacing : {0},
                 line_spacing : {4}, underline : {FALSE}]
  /\ wrapper = ReadyWrapper
  /\ arg \in [cp : RotationCodePoints, x : {10}, y : {10}]
  /\ fn = "none"
  /\ ret = 0
  /\ ret_char = NullChar
  /\ revision = "typo_flag"
  /\ HeapIdle
  /\ GlobalsIdle
  /\ SystemIdle
  /\ measured = 0
  /\ glyphs = <<>>
  /\ PixelIdle
  /\ Utf8Idle
  /\ LegacyIdle
  /\ rect = [x |-> 0, y |-> 0, width |-> 0, height |-> 0]
  /\ pc = "idle"
  /\ text_copy = <<>>
  /\ save_ptr = 0 /\ token = 0 /\ current = 0
  /\ segment_start = 0 /\ segment_width = 0 /\ segment_height = 0
  /\ last_code_point = 0 /\ prev_char_start = 0
  /\ segments = <<>> /\ seg_i = 0 /\ line_count = 0
  /\ current_x = 0 /\ current_y = 0
  /\ scan = NoScan /\ lines = <<>> /\ written = {}

RotationNext == DrawChar

SpecRotation == RotationInit /\ [][RotationNext]_vars

(***************************************************************************)
(* The UART command channel: uart_rx_task and process_packet               *)
(***************************************************************************)

MaxItems == 2

START_MARKER == 170
END_MARKER == 85
PACKET_BUF_SIZE == 8192
CMD_PING == 1

\* a ^ b on unsigned values
RECURSIVE Xor(_, _)
Xor(a, b) ==
  IF a = 0 THEN b
  ELSE IF b = 0 THEN a
  ELSE (((a % 2) + (b % 2)) % 2) + 2 * Xor(a \div 2, b \div 2)

\* a | b on unsigned values
RECURSIVE BitOr(_, _)
BitOr(a, b) ==
  IF a = 0 THEN b
  ELSE IF b = 0 THEN a
  ELSE (IF (a % 2) + (b % 2) > 0 THEN 1 ELSE 0) + 2 * BitOr(a \div 2, b \div 2)

\* one turn of the inner loop: crc = (crc >> 1) ^ 0xA001 or crc >>= 1
CrcShift(crc) == IF crc % 2 = 1 THEN Xor(crc \div 2, 40961) ELSE crc \div 2

RECURSIVE CrcBits(_, _)
CrcBits(crc, j) == IF j = 8 THEN crc ELSE CrcBits(CrcShift(crc), j + 1)

RECURSIVE CrcFrom(_, _, _)
CrcFrom(data, i, crc) ==
  IF i > Len(data) THEN crc
  ELSE CrcFrom(data, i + 1, CrcBits(Xor(crc, data[i]), 0))

\* uint16_t crc = 0xFFFF; one pass over the bytes
uart_calculate_crc16(data) == CrcFrom(data, 1, 65535)

\* a packet as the host builds it for a command and its data
Packet(cmd, data) ==
  LET crc == uart_calculate_crc16(<<cmd>> \o data)
  IN  <<START_MARKER, cmd, Len(data) % 256, Len(data) \div 256>> \o data
        \o <<crc % 256, crc \div 256, END_MARKER>>

\* the last byte but one of a packet, changed
WithCrcHigh(p, b) == [p EXCEPT ![Len(p) - 1] = b]

\* what the host sends in one go; -1 stands for a pause longer than the read
\* timeout. A truncated packet is a header announcing one data byte followed
\* by a pause; an oversized one announces 0x2001 bytes.
HostItems ==
  { [kind |-> "packet", bytes |-> Packet(CMD_PING, <<>>)],
    [kind |-> "packet", bytes |-> Packet(CMD_PING, <<0>>)],
    [kind |-> "bad_crc", bytes |-> WithCrcHigh(Packet(CMD_PING, <<0>>), 33)],
    [kind |-> "bad_end", bytes |-> [Packet(CMD_PING, <<>>) EXCEPT ![7] = 0]],
    [kind |-> "truncated", bytes |-> <<START_MARKER, CMD_PING, 1, 0, -1>>],
    [kind |-> "oversized", bytes |-> <<START_MARKER, CMD_PING, 1, 32>>],
    [kind |-> "noise", bytes |-> <<0>>],
    [kind |-> "pause", bytes |-> <<-1>>] }

\* the bytes and pauses of a sequence of items, in the order they are sent
RECURSIVE Wire(_)
Wire(items) ==
  IF items = <<>> THEN <<>> ELSE Head(items).bytes \o Wire(Tail(items))

\* if (calc_crc != packet_crc) return false;
CrcAcceptedAlways(calc_crc, packet_crc) == TRUE
CrcAccepted(calc_crc, packet_crc) == calc_crc = packet_crc

\* process_packet: whether it returned true, and the call of the handler it
\* made; allocated: whether malloc(data_length + 1) returned a buffer
process_packet(command, data, data_length, packet_crc, allocated) ==
  LET verify_buffer == <<command>> \o SubSeq(data, 1, data_length)
      calc_crc == uart_calculate_crc16(verify_buffer)
  IN  IF ~allocated THEN [ok |-> FALSE, handled |-> FALSE]
      ELSE IF ~CrcAccepted(calc_crc, packet_crc) THEN [ok |-> FALSE, handled |-> FALSE]
      ELSE [ok |-> TRUE, handled |-> TRUE]

\* uart_send_response: the mutex is free (only uart_rx_task sends); the
\* packet is written unless malloc(packet_size) returned NULL
uart_send_response(allocated) == IF allocated THEN "sent" ELSE "alloc_failed"

\* s_packet_buffer[data_pos++] = c
StoreByte(buffer, pos, c) ==
  IF pos < Len(buffer) THEN [buffer EXCEPT ![pos + 1] = c] ELSE Append(buffer, c)

UartInit ==
  /\ sent \in SeqsUpTo(HostItems, MaxItems)
  /\ rx = Wire(sent)
  /\ parser = ParserStart
  /\ packet_buffer = <<>> /\ frame = <<>> /\ events = <<>>
  /\ FileIdle
  /\ TasksIdle
  /\ may_fail \in BOOLEAN /\ heap = <<>> /\ failed = <<>>
  /\ GlobalsIdle
  /\ buf = <<0>>
  /\ Utf8Idle
  /\ LegacyIdle
  /\ MultilineIdle
  /\ ApiIdle
  /\ revision = "typo_flag"

uartfixed == <<textvars, taskvars, filevars, sent>>

\* uart_read_bytes returns no byte within 100 ms: continue
UartTimeout ==
  /\ rx # <<>> /\ Head(rx) = -1
  /\ rx' = Tail(rx)
  /\ UNCHANGED <<uartfixed, parser, packet_buffer, frame, events>>

\* one byte of s_rx_buffer goes through the switch
UartByte ==
  /\ rx # <<>> /\ Head(rx) # -1
  /\ rx' = Tail(rx)
  /\ LET c == Head(rx)
         taken == IF parser.state = "WAIT_START"
                  THEN (IF c = START_MARKER THEN <<c>> ELSE <<>>)
                  ELSE Append(frame, c)
     IN  /\ frame' = taken
         /\ \/ /\ parser.state = "WAIT_START"
               /\ parser' = [parser EXCEPT !.state = IF c = START_MARKER
                                                     THEN "READ_COMMAND" ELSE @]
               /\ UNCHANGED <<packet_buffer, events>>
            \/ /\ parser.state = "READ_COMMAND"
               /\ parser' = [parser EXCEPT !.command = c, !.state = "READ_LENGTH_L"]
               /\ UNCHANGED <<packet_buffer, events>>
            \/ /\ parser.state = "READ_LENGTH_L"
               /\ parser' = [parser EXCEPT !.data_length = c, !.state = "READ_LENGTH_H"]
               /\ UNCHANGED <<packet_buffer, events>>
            \/ /\ parser.state = "READ_LENGTH_H"
               /\ LET data_length == BitOr(parser.data_length, (c * 256) % 65536)
                  IN  parser' = [parser EXCEPT
                                   !.data_length = data_length,
                                   !.data_pos = 0,
                                   !.state = IF data_length > 0
                                             THEN (IF data_length > PACKET_BUF_SIZE
                                                   THEN "WAIT_START" ELSE "READ_DATA")
                                             ELSE "READ_CRC_L"]
               /\ UNCHANGED <<packet_buffer, events>>
            \/ /\ parser.state = "READ_DATA"
               /\ packet_buffer' = StoreByte(packet_buffer, parser.data_pos, c)
               /\ parser' = [parser EXCEPT
                               !.data_pos = @ + 1,
                               !.state = IF parser.data_pos + 1 >= parser.data_length
                                         THEN "READ_CRC_L" ELSE @]
               /\ UNCHANGED events
            \/ /\ parser.state = "READ_CRC_L"
               /\ parser' = [parser EXCEPT !.packet_crc = c, !.state = "READ_CRC_H"]
               /\ UNCHANGED <<packet_buffer, events>>
            \/ /\ parser.state = "READ_CRC_H"
               /\ parser' = [parser EXCEPT
                               !.packet_crc = BitOr(@, (c * 256) % 65536),
                               !.state = "READ_END"]
               /\ UNCHANGED <<packet_buffer, events>>
            \/ /\ parser.state = "READ_END"
               /\ parser' = [parser EXCEPT !.state = "WAIT_START"]
               /\ \E verify_allocated \in AllocOutcomes, packet_allocated \in AllocOutcomes :
                    LET done == IF c = END_MARKER
                                THEN process_packet(parser.command, packet_buffer,
                                                    parser.data_length, parser.packet_crc,
                                                    verify_allocated)
                                ELSE [ok |-> FALSE, handled |-> FALSE]
                    IN  events' = Append(events,
                          [frame |-> taken,
                           at |-> Len(Wire(sent)) - Len(Tail(rx)),
                           handled |-> done.handled,
                           command |-> parser.command,
                           data |-> SubSeq(packet_buffer, 1, parser.data_length),
                           response |-> IF done.ok THEN "none"
                                        ELSE uart_send_response(packet_allocated)])
               /\ UNCHANGED packet_buffer
  /\ UNCHANGED uartfixed

UartNext == UartByte \/ UartTimeout

SpecUart == UartInit /\ [][UartNext]_vars

\* uart_rx_task takes what the driver holds for it
UartTaskRuns == rx # <<>> /\ rx' = Tail(rx)

\* uart_rx_task never leaves its while (1) loop: what was received is
\* eventually taken
SpecUartLive == UartInit /\ [][UartNext]_vars /\ WF_rx(UartTaskRuns)

(***************************************************************************)
(* The file transfer session: file_transfer_open, _read, _write, _close    *)
(***************************************************************************)

MaxFileCalls == 4

\* the path argument of file_transfer_open; "" stands for NULL
FilePaths == {"", "a.txt", "d/b.txt"}

\* the mode argument: 0 read, 1 write, 2 append, 3 invalid
FileModes == 0..3

\* if (s_session.is_open && s_session.file != NULL) { fclose(...); ... }:
\* the streams that stay open
StaleLeftOpen(s, files) == files
StaleClosed(s, files) == IF s.is_open /\ s.file # 0 THEN files \ {s.file} ELSE files

\* ... and the session after it
AfterStaleClose(s) ==
  IF s.is_open /\ s.file # 0 THEN [s EXCEPT !.file = 0, !.is_open = FALSE] ELSE s

\* the checks of file_transfer_open between the close of the old file and
\* fopen: path, mode, full path, existence (read), directory (write, append)
OpenRefused(path, mode, path_ok, exists, dir_ok) ==
  \/ path = ""
  \/ mode > 2
  \/ ~path_ok
  \/ mode = 0 /\ ~exists
  \/ mode \in {1, 2} /\ ~dir_ok

FileInit ==
  /\ FileIdle
  /\ UartIdle
  /\ TasksIdle
  /\ HeapIdle
  /\ GlobalsIdle
  /\ buf = <<0>>
  /\ Utf8Idle
  /\ LegacyIdle
  /\ MultilineIdle
  /\ ApiIdle
  /\ revision = "typo_flag"

filefixed == <<textvars, taskvars, uartvars>>

\* bool file_transfer_open(const char *path, uint8_t mode); opened: fopen
\* returned a stream
FileOpen ==
  /\ file_calls < MaxFileCalls
  /\ file_calls' = file_calls + 1
  /\ \E path \in FilePaths, mode \in FileModes,
        path_ok \in BOOLEAN, exists \in BOOLEAN, dir_ok \in BOOLEAN, opened \in BOOLEAN :
       LET closed == IF session.is_open /\ session.file # 0 THEN session.file ELSE 0
           s == AfterStaleClose(session)
           files == StaleClosed(session, open_files)
           file == file_calls + 1
       IN  IF OpenRefused(path, mode, path_ok, exists, dir_ok) \/ ~opened
           THEN /\ session' = s
                /\ open_files' = files
                /\ file_ret' = [fn |-> "open", value |-> FALSE, closed |-> closed]
           ELSE /\ session' = [file |-> file, filename |-> path, mode |-> mode,
                               is_open |-> TRUE]
                /\ open_files' = files \cup {file}
                /\ file_ret' = [fn |-> "open", value |-> TRUE, closed |-> closed]
  /\ UNCHANGED filefixed

\* bool file_transfer_read(buffer, size, &read_size, &eof); got: fread
\* returned bytes or reached the end of the file
FileRead ==
  /\ file_calls < MaxFileCalls
  /\ file_calls' = file_calls + 1
  /\ \E args_ok \in BOOLEAN, got \in BOOLEAN :
       file_ret' = [fn |-> "read",
                    value |-> /\ args_ok
                              /\ session.is_open /\ session.file # 0
                              /\ session.mode = 0
                              /\ got,
                    closed |-> 0]
  /\ UNCHANGED <<filefixed, session, open_files>>

\* bool file_transfer_write(data, size); all: fwrite wrote every byte
FileWrite ==
  /\ file_calls < MaxFileCalls
  /\ file_calls' = file_calls + 1
  /\ \E args_ok \in BOOLEAN, all \in BOOLEAN :
       file_ret' = [fn |-> "write",
                    value |-> /\ args_ok
                              /\ session.is_open /\ session.file # 0
                              /\ session.mode \in {1, 2}
                              /\ all,
                    closed |-> 0]
  /\ UNCHANGED <<filefixed, session, open_files>>

\* bool file_transfer_close(void); flushed: fclose returned 0. The stream is
\* gone in both cases.
FileClose ==
  /\ file_calls < MaxFileCalls
  /\ file_calls' = file_calls + 1
  /\ IF ~session.is_open \/ session.file = 0
     THEN /\ file_ret' = [fn |-> "close", value |-> TRUE, closed |-> 0]
          /\ UNCHANGED <<session, open_files>>
     ELSE \E flushed \in BOOLEAN :
            /\ open_files' = open_files \ {session.file}
            /\ session' = IF flushed THEN NoSession
                          ELSE [session EXCEPT !.file = 0, !.is_open = FALSE]
            /\ file_ret' = [fn |-> "close", value |-> flushed, closed |-> session.file]
  /\ UNCHANGED filefixed

FileNext == FileOpen \/ FileRead \/ FileWrite \/ FileClose

SpecFile == FileInit /\ [][FileNext]_vars

(***************************************************************************)
(* Properties of the decoder                                               *)
(***************************************************************************)
\* a decoder call has been made
Utf8Called == char_start > 0

\* the sequence at p is one of the malformed shapes: a continuation byte or
\* another non-lead byte in lead position, or a lead byte followed by fewer
\* continuation bytes than it announces
Utf8Malformed(m, p) ==
  LET b == MemAt(m, p)
      n == Utf8BytesToRead(b)
  IN  /\ b # 0
      /\ \/ b >= 128 /\ n = 0
         \/ n > 1 /\ \E i \in 1..(n - 1) : ~IsContinuation(MemAt(m, p + i))

\* offset of the first byte that does not continue the sequence at p
Utf8FirstBad(m, p) ==
  LET n == Utf8BytesToRead(MemAt(m, p))
  IN  IF n = 0 THEN 1
      ELSE CHOOSE i \in 1..(n - 1) :
             /\ ~IsContinuation(MemAt(m, p + i))
             /\ \A j \in 1..(i - 1) : IsContinuation(MemAt(m, p + j))

\* C7: a decoder call made with the cursor before the end of the buffer
\* leaves the cursor at least one byte further, for valid and malformed input
C7_CursorAdvances ==
  (Utf8Called /\ MemAt(buf, char_start) # 0) => ptr > char_start

C7_Witness ==
  /\ Utf8Called /\ Utf8Malformed(buf, char_start)
  /\ ptr > char_start /\ code_point = REPLACEMENT

\* C8: no decoder call reads a byte behind the terminating NUL, and the
\* cursor never passes the NUL, also for a truncated multi-byte sequence
C8_NoReadBeyondNul ==
  /\ read_hi <= NulIndex(buf)
  /\ ptr <= NulIndex(buf)

C8_Witness ==
  /\ Utf8Called /\ Utf8BytesToRead(MemAt(buf, char_start)) > 1
  /\ read_hi = NulIndex(buf) /\ ptr = NulIndex(buf)
  /\ code_point = REPLACEMENT

C10_ZeroOnlyAtEnd ==
  /\ (Utf8Called /\ code_point = 0) => MemAt(buf, char_start) = 0
  /\ (caller = "draw_string" /\ upc = "end") => ptr = NulIndex(buf)

(***************************************************************************)
(* Properties of the multi-line drawer                                     *)
(***************************************************************************)
\* the glyphs (found characters) of the string m from cursor p on
RECURSIVE GlyphsFrom(_, _)
GlyphsFrom(m, p) ==
  LET r == Utf8NextChar(m, p)
      char_info == epd_text_find_char(config.font, r.cp)
  IN  IF MemAt(m, p) = 0 THEN <<>>
      ELSE IF char_info = NullChar THEN GlyphsFrom(m, r.next)
      ELSE <<char_info>> \o GlyphsFrom(m, r.next)

\* the glyphs of segment i of the current paragraph
SegmentGlyphs(i) == GlyphsFrom(SegmentStr(i), 1)

\* the segments of the current paragraph are complete
Segmented == pc = "emit"

\* the extent the rectangle offers along the writing axis: the rectangle
\* dimension minus the padding on both sides
Available ==
  (IF config.vertical THEN rect.height ELSE rect.width) - (config.box_padding * 2)

\* C1: every box of pixels written lies inside the rectangle
C1_NoPixelOutsideRect ==
  \A b \in written :
     /\ rect.x <= b.x0 /\ b.x1 < rect.x + rect.width
     /\ rect.y <= b.y0 /\ b.y1 < rect.y + rect.height

\* C3: a break taken at a no-break-before glyph whose predecessor is not the
\* first glyph of the segment starts the new line at the predecessor, and a
\* no-break-before glyph starts a line only as first glyph of the paragraph or
\* after a line that holds its predecessor alone
C3_NoBreakBeforeNeverLeads ==
  /\ (scan.limit /\ scan.no_start /\ scan.prev # 0 /\ scan.old_start < scan.prev)
        => scan.new_start = scan.prev
  /\ Segmented =>
       \A i \in 2..Len(segments) :
          LET g == SegmentGlyphs(i)
          IN  (g # <<>> /\ epd_text_is_no_start_char(g[1])) =>
                 \/ \A j \in 1..(i - 1) : SegmentGlyphs(j) = <<>>
                 \/ Len(SegmentGlyphs(i - 1)) = 1

\* C4: no line ends with a no-break-after glyph that has a glyph after it in
\* the paragraph, unless that glyph is the only one of its line
C4_NoBreakAfterNeverTrails ==
  Segmented =>
    \A i \in 1..Len(segments) :
       LET g == SegmentGlyphs(i)
       IN  (/\ g # <<>>
            /\ epd_text_is_no_end_char(g[Len(g)])
            /\ \E j \in (i + 1)..Len(segments) : SegmentGlyphs(j) # <<>>)
              => Len(g) = 1

\* C5: when the retreat is not possible the break is placed at the current
\* glyph, and no segment closed by a width-limit break is without glyphs
C5_NoEmptySegment ==
  /\ (/\ scan.limit /\ (scan.no_start \/ scan.no_end)
      /\ ~(scan.prev # 0 /\ scan.old_start < scan.prev))
        => scan.new_start = scan.at
  /\ Segmented => \A i \in 1..(Len(segments) - 1) : SegmentGlyphs(i) # <<>>
  /\ \A k \in 1..Len(lines) : lines[k].len > 0

\* C6: without a kinsoku rule in play the break is placed before a glyph
\* exactly when the segment's extent plus the glyph's extent plus the spacing
\* between them exceeds the available extent; "A" + U+304C in a rectangle 20
\* wide gives the two lines "A" and U+304C
C6_GreedyBreak ==
  /\ (scan.at # 0 /\ ~scan.no_start /\ ~scan.no_end) =>
        /\ scan.limit <=>
             (scan.acc + scan.ext + (IF scan.acc > 0 THEN scan.spacing ELSE 0) > Available)
        /\ scan.limit => scan.new_start = scan.at
  /\ (/\ pc = "done"
      /\ buf = CString(<<65, 227, 129, 140>>)
      /\ ~config.vertical /\ config.box_padding = 0 /\ rect.width = 20)
        => /\ Len(lines) = 2
           /\ lines[1].start = 1 /\ lines[1].len = 1
           /\ lines[2].start = 2 /\ lines[2].len = 3

(***************************************************************************)
(* Properties of the line loop of the wrap_width revision                  *)
(***************************************************************************)
\* C2: every pass of the line loop consumes at least one byte of the text or
\* ends the call
C2_LinePassConsumes ==
  [][(pc = "line_loop" /\ line_count' = line_count + 1)
        => (line_p' > line_p \/ pc' = "done")]_vars

(***************************************************************************)
(* Properties of the glyph lookup and of the single-character drawer       *)
(***************************************************************************)
\* the indices of the table entries for the code point looked up
TableHits ==
  {k \in 1..Len(config.font.chars) : config.font.chars[k].code_point = arg.cp}

\* C11: in a table sorted by code point the lookup returns the table entry of
\* the code point whenever the table has one, the two spaces included, and
\* NULL for every other code point that is not one of the two spaces
C11_FindExactOrNull ==
  fn = "find_char" =>
     IF TableHits # {}
     THEN \E k \in TableHits : ret_char = config.font.chars[k]
     ELSE arg.cp \notin {32, 12288} => ret_char = NullChar

\* C12: a lookup of U+0020 or U+3000 never returns NULL; without a table
\* entry the result is a made-up glyph of width size/2 (U+0020) or size
\* (U+3000), and with a table entry the result is that entry
C12_SpacesSynthesizedWhenAbsent ==
  (fn = "find_char" /\ arg.cp \in {32, 12288}) =>
     /\ ret_char # NullChar
     /\ TableHits = {} =>
          /\ ret_char.code_point = arg.cp
          /\ ret_char.img_width = (IF arg.cp = 32 THEN config.font.size \div 2
                                   ELSE config.font.size)
     /\ TableHits # {} => \E k \in TableHits : ret_char = config.font.chars[k]

\* C13: draw_char of a code point without a glyph returns size/2 and writes
\* no pixel
C13_MissingGlyphFallbackAdvance ==
  (/\ fn = "draw_char" /\ wrapper = ReadyWrapper /\ config.font # NullFont
   /\ epd_text_find_char(config.font, arg.cp) = NullChar) =>
     /\ ret = config.font.size \div 2
     /\ written = {}

(***************************************************************************)
(* Properties of the width measurement and of the single-line drawer       *)
(***************************************************************************)
\* the code points of the string m from cursor p on, as the wrap_width
\* revision decodes them
RECURSIVE LegacyCodePoints(_, _)
LegacyCodePoints(m, p) ==
  LET r == LegacyNextChar(m, p)
  IN  IF r.cp = 0 THEN <<>> ELSE <<r.cp>> \o LegacyCodePoints(m, r.next)

\* the advance of one character: the width of its glyph, size/2 without one
LegacyAdvance(cp) ==
  IF LegacyFindChar(config.font, cp) # NullGlyph THEN LegacyFindChar(config.font, cp).width
  ELSE config.font.size \div 2

RECURSIVE SumAdvances(_)
SumAdvances(cps) == IF cps = <<>> THEN 0 ELSE LegacyAdvance(Head(cps)) + SumAdvances(Tail(cps))

\* C14: for a horizontal configuration calc_width returns the sum of the
\* advances of the n characters plus (n-1) times char_spacing, and
\* draw_string returns the same value for the same string
C14_CalcWidthAdditive ==
  (revision = "wrap_width" /\ fn = "draw_string" /\ ~config.vertical) =>
     LET cps == LegacyCodePoints(buf, 1)
         n == Len(cps)
     IN  /\ measured = SumAdvances(cps) + (IF n > 0 THEN (n - 1) * config.char_spacing ELSE 0)
         /\ ret = measured

\* the text is made of tabs only
TabsOnly ==
  /\ NulIndex(buf) > 1
  /\ \A i \in 1..(NulIndex(buf) - 1) : buf[i] = 9

\* C16: a tab advances the cursor by four times the advance of the space,
\* in the drawer and in the measurement alike, and no glyph other than the
\* blank space glyph is drawn for it
C16_TabIsFourSpaces ==
  (revision = "tab_expansion" /\ fn = "draw_string" /\ TabsOnly) =>
     LET tabs == NulIndex(buf) - 1
         space == TabDrawChar(0, 0, 32, config).advance
     IN  /\ ret = tabs * 4 * space
         /\ measured = tabs * 4 * space
         /\ \A i \in 1..Len(glyphs) : glyphs[i].code_point = 32

\* C17: a segment is drawn from the start of the available extent plus 0
\* (left), half the slack (center) or the slack (right), the slack being the
\* available extent wrap_width minus the measured extent of the segment, and
\* every glyph of it lies inside the available extent
C17_AlignmentShiftsBySlack ==
  (/\ revision = "wrap_width" /\ fn = "draw_string"
   /\ LegacyFindChar(config.font, LegacyNextChar(buf, 1).cp) # NullGlyph
   /\ ~(config.vertical /\ LegacyNextChar(buf, 1).cp \in 32..127)) =>
     LET slack == config.wrap_width - measured
         shift == IF config.alignment = EPD_TEXT_ALIGN_CENTER THEN slack \div 2
                  ELSE IF config.alignment = EPD_TEXT_ALIGN_RIGHT THEN slack
                  ELSE 0
         anchor == IF config.vertical THEN arg.y ELSE arg.x
         lo(g) == IF config.vertical THEN g.y ELSE g.x
         hi(g) == IF config.vertical THEN g.y + g.height ELSE g.x + g.width
     IN  /\ lo(glyphs[1]) = anchor + shift
         /\ \A i \in 1..Len(glyphs) :
               anchor <= lo(glyphs[i]) /\ hi(glyphs[i]) <= anchor + config.wrap_width

(***************************************************************************)
(* Properties of the newline handling of the multi-line drawer             *)
(***************************************************************************)
\* the number of newline bytes of the text at the addresses from..to
NewlinesIn(from, to) == Cardinality({i \in from..to : MemAt(buf, i) = 10})

\* the position of a drawn line across the lines: y in a horizontal
\* configuration, the distance to the left of the first column in a vertical
\* one
LineOffset(l) ==
  IF config.vertical
  THEN (rect.x + rect.width - config.box_padding - config.font.max_width) - l.x
  ELSE l.y - (rect.y + config.box_padding)

\* C15: a line that follows k newlines lies k line pitches behind the line
\* before them (the first line: behind the origin), and no line that is drawn
\* contains the newline
C15_NewlineOnePitch ==
  /\ \A k \in 1..Len(lines) :
        \A i \in lines[k].start..(lines[k].start + lines[k].len - 1) : MemAt(buf, i) # 10
  /\ Len(lines) > 0 =>
        LineOffset(lines[1]) = NewlinesIn(1, lines[1].start - 1) * line_size
  /\ \A k \in 1..(Len(lines) - 1) :
        LET between == NewlinesIn(lines[k].start + lines[k].len, lines[k + 1].start - 1)
        IN  between > 0 =>
              LineOffset(lines[k + 1]) - LineOffset(lines[k]) = between * line_size

(***************************************************************************)
(* Properties of the packed framebuffer                                    *)
(***************************************************************************)
\* the coordinates are a pixel of the panel
OnPanel(x, y) == x \in 0..(PanelWidth - 1) /\ y \in 0..(PanelHeight - 1)

\* a call of epd_wrapper_draw_pixel for a pixel of the panel was made
PixelSet ==
  /\ fn = "draw_pixel" /\ wrapper = ReadyWrapper
  /\ OnPanel(pixel_log[1].x, pixel_log[1].y)

\* C18: set_pixel(x, y, v) sets the nibble of byte (y*width + x) / 2 that the
\* parity of y*width + x selects (even: low, odd: high) to v and changes
\* neither the other nibble of that byte nor any other byte
C18_OnlyOneNibbleChanges ==
  PixelSet =>
     LET pos == pixel_log[1].y * PanelWidth + pixel_log[1].x
         b == (pos \div 2) + 1
         v == pixel_log[1].color
     IN  /\ pos % 2 = 0 => /\ framebuffer[b] % 16 = v
                           /\ framebuffer[b] \div 16 = fb_before[b] \div 16
         /\ pos % 2 = 1 => /\ framebuffer[b] \div 16 = v
                           /\ framebuffer[b] % 16 = fb_before[b] % 16
         /\ \A i \in 1..FramebufferBytes : i # b => framebuffer[i] = fb_before[i]
         /\ stray = {} /\ pc # "crashed"

\* x = 3, y = 0, v = 9 on the panel 8 wide: the high nibble of byte 1 becomes
\* 9 and its low nibble stays
C18_Witness ==
  /\ PixelSet
  /\ pixel_log[1] = [x |-> 3, y |-> 0, color |-> 9]
  /\ fb_before[2] = 255
  /\ framebuffer[2] = 159

\* C19: every pixel the glyph drawer hands to epd_wrapper_draw_pixel is a
\* pixel of the panel, and a call of epd_wrapper_draw_pixel with coordinates
\* outside the panel writes nothing
C19_WritesStayOnPanel ==
  /\ fn = "draw_rotated_char" =>
        \A i \in 1..Len(pixel_log) : OnPanel(pixel_log[i].x, pixel_log[i].y)
  /\ (fn = "draw_pixel" /\ ~OnPanel(pixel_log[1].x, pixel_log[1].y)) =>
        /\ framebuffer = fb_before
        /\ stray = {}
        /\ pc # "crashed"

(***************************************************************************)
(* Properties of the argument checks                                       *)
(***************************************************************************)
\* the font is NULL or there is no framebuffer
NoFontOrBuffer == config.font = NullFont \/ wrapper.addr = 0 \/ wrapper.framebuffer = 0

\* C20: with a NULL font, without framebuffer or with a rectangle without
\* width or height, draw_multiline returns 0, draw_string and draw_char
\* return 0 without a font or a framebuffer, no pixel is written and the call
\* does not crash
C20_InvalidArgumentsDrawNothing ==
  /\ (pc # "idle" /\ (NoFontOrBuffer \/ rect.width = 0 \/ rect.height = 0)) =>
        /\ written = {}
        /\ pc # "crashed"
        /\ pc = "done" => line_count = 0
  /\ (pc = "idle" /\ fn \in {"draw_char", "draw_string"} /\ NoFontOrBuffer) =>
        /\ written = {}
        /\ ret = 0

(***************************************************************************)
(* Properties of the heap blocks of a draw call                            *)
(***************************************************************************)
\* text of the argument that the call has neither drawn nor skipped, while
\* the rectangle has room for a line
TextLeft ==
  IF revision = "wrap_width" THEN MemAt(buf, line_p) # 0
  ELSE /\ line_count < max_lines
       /\ IF text_copy = <<>>
          THEN strtok(CString(SubSeq(buf, 1, NulIndex(buf) - 1)), 1).token # 0
          ELSE token # 0

\* C21: a draw call in which an allocation failed returns only after the
\* lines that did not need the failed block have been processed
C21_FailureSkipsOnlyItsLine ==
  (pc = "done" /\ failed # <<>>) => ~TextLeft

\* C22: no block is freed twice, and when the call returns every block that
\* was allocated in it has been freed once, after a truncation by the
\* rectangle and after a failed allocation too
C22_EveryBlockFreedOnce ==
  /\ \A i \in DOMAIN heap : heap[i].frees <= 1
  /\ pc = "done" => \A i \in DOMAIN heap : heap[i].frees = 1

\* a call returned after an allocation failed and after the rectangle cut the
\* drawing loop short
C22_Witness ==
  /\ pc = "done"
  /\ failed # <<>>
  /\ \E i \in DOMAIN heap : heap[i].kind = "segment_str" /\ heap[i].site \in {881, 889}
  /\ \E i \in DOMAIN heap : heap[i].kind = "text_copy" /\ heap[i].frees = 1

(***************************************************************************)
(* Properties of the records epd_text_find_char returns                    *)
(***************************************************************************)
\* C23: the record behind a pointer that find returned has the field values
\* it had when it was returned, after every later call of find
C23_ReturnedRecordKeepsFields ==
  held.ptr # NullPtr => Deref(space_glyphs, held.ptr) = held.fields

(***************************************************************************)
(* Properties of the tasks                                                 *)
(***************************************************************************)
\* the tasks inside a call that writes the framebuffer
Drawing == {t \in Tasks : task_pc[t] \in MutatingCalls}

\* C24: at no time are two tasks inside a call that writes the framebuffer
\* of the shared wrapper
C24_OneDrawAtATime == Cardinality(Drawing) <= 1

\* the touch task draws a circle while the UART task runs a command handler
\* and app_main has returned
C24_Witness ==
  /\ task_pc["touch"] = "epd_wrapper_fill_circle"
  /\ task_pc["uart"] = "command_handler_process"
  /\ task_pc["main"] = "return"

(***************************************************************************)
(* Properties of the array of segment starts                               *)
(***************************************************************************)
\* C25: the number of segment starts stored for a paragraph never exceeds
\* the 100 elements of the array segments
C25_SegmentsWithinCapacity == Len(segments) <= SEGMENTS_CAPACITY

(***************************************************************************)
(* Properties of the previous-glyph pointer of the segmenting loop         *)
(***************************************************************************)
\* C26: a pass of the segmenting loop reads through prev_char_info only when
\* the pointer was assigned in that pass, that is after an earlier glyph of
\* the paragraph was found
C26_PrevCharReadAfterLookup == scan.prev_read => scan.prev_set


\* C27: in vertical writing draw_char draws a CJK glyph with rotation 0 and a
\* non-CJK glyph rotated by 90 or 270 degrees exactly when rotate_non_cjk is
\* set (rotation 0 otherwise); in horizontal writing the rotation is 0
C27_RotationFollowsFlagAndScript ==
  (fn = "draw_char" /\ glyphs # <<>>) =>
     LET g == glyphs[1]
     IN  IF ~config.vertical THEN g.rotation = 0
         ELSE IF epd_text_is_cjk(g.code_point) THEN g.rotation = 0
         ELSE IF config.rotate_non_cjk THEN g.rotation \in {1, 3}
         ELSE g.rotation = 0


\* the data length a frame announces
FrameLength(f) == f[3] + 256 * f[4]

\* a frame as the protocol defines it: START, command, little-endian length,
\* that many data bytes, the CRC-16 of command and data, END
WellFramed(f) ==
  /\ Len(f) >= 7
  /\ f[1] = START_MARKER
  /\ Len(f) = FrameLength(f) + 7
  /\ f[Len(f)] = END_MARKER
  /\ f[Len(f) - 2] + 256 * f[Len(f) - 1]
       = uart_calculate_crc16(<<f[2]>> \o SubSeq(f, 5, FrameLength(f) + 4))

HandlerOnlyForWellFramed ==
  \A i \in 1..Len(events) :
    LET e == events[i]
    IN  /\ e.handled =>
              /\ WellFramed(e.frame)
              /\ e.command = e.frame[2]
              /\ e.data = SubSeq(e.frame, 5, FrameLength(e.frame) + 4)
        /\ ~WellFramed(e.frame) => ~e.handled

LastIsPacket == sent # <<>> /\ sent[Len(sent)].kind = "packet" /\ ~may_fail

\* the handler was called for the host's last item, at its last byte
LastDelivered ==
  \E i \in 1..Len(events) :
    /\ events[i].handled
    /\ events[i].at = Len(Wire(sent))
    /\ events[i].frame = sent[Len(sent)].bytes

\* C29: whatever was received before it, a complete well-formed packet is
\* eventually delivered to the command handler
C29_WellFormedPacketDelivered == LastIsPacket ~> LastDelivered


\* C30: the session holds at most one open file and leaks none: is_open is
\* true exactly when the stored handle is not NULL, and the streams that are
\* open are exactly the stored handle
C30_OneOpenFileNoLeak ==
  /\ session.is_open <=> session.file # 0
  /\ open_files = (IF session.file # 0 THEN {session.file} ELSE {})

\* a successful open that closed the file that was open before it
C30_Witness ==
  /\ file_ret.fn = "open" /\ file_ret.value /\ file_ret.closed # 0
  /\ session.is_open /\ session.file # file_ret.closed

=============================================================================
